---- MODULE Spec2Model ----
(***************************************************************************)
(* isilon_hadoop_tools: the identity provisioner (identities.py) run       *)
(* against a OneFS cluster (onefs.py).                                     *)
(*                                                                         *)
(* One behaviour is a first create_identities run followed by a second run *)
(* with a fresh Creator on the same catalog, the same start IDs and the    *)
(* remote state the first run left behind.  A run takes one step per       *)
(* remote call of Creator; a run ends "done" (returned) or "raised".       *)
(*                                                                         *)
(* DrySpec is a dry run (Creator.log_identities) followed by a run of      *)
(* create_identities in the same process; WrapperSpec is one call of a     *)
(* function decorated with accesses_onefs.                                 *)
(***************************************************************************)
EXTENDS Integers, Sequences, FiniteSets, TLC

\* Creator.default_start_uid / default_start_gid
default_start_uid == 1025
default_start_gid == 1025

\* Bound of the model: the IDs at or above the start ID that foreign identities
\* hold when the first run starts.
MaxTaken == 2

None == "None"

\* Names the catalogs draw from.
GroupNames == {"hadoop", "hdfs"}
AllUserNames == <<"hdfs", "hive">>
ProxyUserNames == {"hive"}
\* Identities of the zone that no catalog names.
ForeignNames == <<"wheel", "daemon", "operator", "staff">>
\* IDs below the start ID, held by identities that existed before any run.
LegacyId(name) == IF name = "hadoop" THEN 1001 ELSE 1002

VARIABLES
    identities,          \* the catalog: groups, users, proxy_users
    script_path,         \* Creator.script_path is set
    auth_groups,         \* remote: group name -> GID
    auth_users,          \* remote: user name -> [uid, gid (primary group name)]
    group_members,       \* remote: <<user, group>> secondary memberships
    hdfs_proxyusers,     \* remote: proxy user name -> members
    script,              \* the script file: [exists, lines]
    run,                 \* "first" | "second"
    pc,                  \* position of the run in create_identities
    _next_uid,           \* Creator._next_uid
    _next_gid,           \* Creator._next_gid
    created_group_names, \* iterate_identities' local set
    idx,                 \* index of the user / proxy user being processed
    todo,                \* the rest of the set the current for loop iterates
    cur,                 \* call whose retry loop is running: [name, entry]
    calls,               \* history: the calls this run issued, in order
    handed_gids,         \* history: the GIDs next_gid returned, in order
    handed_uids,         \* history: the UIDs next_uid returned, in order
    ret,                 \* history: how the last create_group/create_user returned
    flushes,             \* history: flush_auth_cache calls of this run
    injected,            \* history: the remote failed this run with an unrecognised error
    answer,              \* history: the remote's answer to the last call
    first_end,           \* history: the zone at the start, and how the first run ended
    order,               \* the order in which this process iterates each set
    logged,              \* log_identities: the actions the dry run logged, in order
    outcomes,            \* accesses_onefs: what func did, invocation by invocation
    invoked,             \* accesses_onefs: invocations of func
    slept,               \* accesses_onefs: calls of time.sleep
    wpc,                 \* accesses_onefs: "call" | "sleep" | "returned" | "raised"
    exited,              \* accesses_onefs: what _decorated returned or raised
    selections,          \* history: the calls of sdk_for_revision and what each gave
    onefs,               \* the clusters: each host's nodes, the zones, the HDFS licenses
    host,                \* Client: _configuration.host
    _address,            \* Client: the address it was given, None after host was set
    _revision,           \* Client: the revision it detected, in a tuple
    _sdk,                \* Client: the active binding
    default_zone,        \* Client: the default zone
    cpc,                 \* Client: "new" | "refresh" | "zone" | "license" | "ready" | "failed"
    pending,             \* Client: the address its setter stores when the host setter returns
    via,                 \* history: the constructor that was called
    checks,              \* history: the checks the constructor ran, in order
    constructed,         \* history: what the constructor returned or raised
    detections,          \* history: the runs of _refresh_sdk
    assigned,            \* history: the assignments to address and host
    license_check,       \* history: what check_license returned or raised
    onefs_zone,          \* Creator.onefs_zone
    flushed,             \* history: the zones flush_auth_cache was issued for
    zone_settings,       \* remote: the settings of the zone (path)
    hdfs_settings,       \* remote: the HDFS settings of the zone (root_directory)
    directories,         \* the directory catalog: path, owner, group, mode
    namespace,           \* remote: directory -> [mode, owner (UID), group (GID)]
    snapshots,           \* history: the namespace at the start, before the last call
                         \* and when the first run returned
    error,               \* history: what create_directories raised
    procs,               \* concurrent runs: the state of each run's Creator
    events,              \* concurrent runs: history of the accesses to the script file
    param,               \* the fixture's parameter: 'cdh' | 'hdp'
    users,               \* the fixture's set of created users
    groups               \* the fixture's set of created groups

vars == <<identities, script_path, auth_groups, auth_users, group_members,
          hdfs_proxyusers, script, run, pc, _next_uid, _next_gid,
          created_group_names, idx, todo, cur, calls, handed_gids,
          handed_uids, ret, flushes, injected, answer, first_end,
          order, logged, outcomes, invoked, slept, wpc, exited, selections,
          onefs, host, _address, _revision, _sdk, default_zone, cpc, pending, via,
          checks, constructed, detections, assigned, license_check,
          onefs_zone, flushed, zone_settings, hdfs_settings, directories, namespace,
          snapshots, error, procs, events, param, users, groups>>

catalog == <<identities, script_path, order>>
wrapper == <<outcomes, invoked, slept, wpc, exited>>
attributes == <<host, _address, _revision, _sdk, default_zone>>
client == <<onefs, attributes, cpc, pending, via, checks, constructed, detections, assigned,
            license_check>>
remote == <<auth_groups, auth_users, group_members, hdfs_proxyusers>>
tree == <<zone_settings, hdfs_settings, directories, namespace, snapshots, error>>
concurrent == <<procs, events>>
fixture == <<param, users, groups>>
elsewhere == <<onefs_zone, tree, concurrent, fixture>>
others == <<elsewhere, flushed>>

----------------------------------------------------------------------------
\* Small helpers.

Range(f) == {f[x] : x \in DOMAIN f}
Min(S) == CHOOSE x \in S : \A y \in S : x <= y
NoCur == [name |-> None, entry |-> 0]
NoRet == [op |-> None, name |-> None, how |-> None, id |-> 0, alloc |-> 0,
          entry |-> 0, before |-> <<>>, after |-> <<>>]
Call(op, a, b) == [op |-> op, a |-> a, b |-> b]
NoAnswer == [kind |-> None, id |-> 0, name |-> ""]
NoExit == [how |-> None, type |-> None, cause |-> None, exc |-> None, value |-> None]

----------------------------------------------------------------------------
\* The catalogs (identities dicts) and the remote states a run may start from.

\* The entries of one user.  The group names are interchangeable, so the first
\* user's primary group is fixed.
UserEntries(name) ==
    {[name |-> name, pgroup |-> p, sgroups |-> s] :
        p \in (IF name = AllUserNames[1] THEN {"hdfs"} ELSE GroupNames),
        s \in SUBSET GroupNames}

RECURSIVE UserDicts(_)
\* identities['users'] with the first n user names, in insertion order
UserDicts(n) ==
    IF n = 0 THEN {<<>>}
    ELSE UserDicts(n - 1) \cup
         {Append(d, e) : d \in {x \in UserDicts(n - 1) : Len(x) = n - 1},
                         e \in UserEntries(AllUserNames[n])}

ProxyMembers == {<<"hadoop", "group">>}
ProxyDicts ==
    {<<>>} \cup {<<[name |-> p, members |-> ProxyMembers]>> : p \in ProxyUserNames}

Catalogs ==
    [groups : SUBSET GroupNames, users : UserDicts(Len(AllUserNames)),
     proxy_users : ProxyDicts]

\* The end-to-end scenario of the catalogs: hdfs:(hdfs, {hadoop}).
ScenarioCatalogs ==
    {[groups |-> g,
      users |-> <<[name |-> "hdfs", pgroup |-> "hdfs", sgroups |-> {"hadoop"}]>>,
      proxy_users |-> p] : g \in {{}, {"hadoop"}}, p \in ProxyDicts}

ForeignIds(start) == {start + i - 1 : i \in 1..MaxTaken}
\* foreign holders of the IDs in T: the i-th foreign name holds start + i - 1
ForeignGroups(T) ==
    [n \in {ForeignNames[i] : i \in {j \in 1..MaxTaken : default_start_gid + j - 1 \in T}}
        |-> default_start_gid + (CHOOSE i \in 1..MaxTaken : ForeignNames[i] = n) - 1]
ForeignUsers(T) ==
    [n \in {ForeignNames[i] : i \in {j \in 1..MaxTaken : default_start_uid + j - 1 \in T}}
        |-> [uid |-> default_start_uid + (CHOOSE i \in 1..MaxTaken : ForeignNames[i] = n) - 1,
             gid |-> "users"]]
LegacyGroups(S) == [n \in S |-> LegacyId(n)]
LegacyUsers(S) == [n \in S |-> [uid |-> LegacyId(n), gid |-> "users"]]
\* The zone's own group, the primary group of the users no catalog created.
BaseGroups == [n \in {"users"} |-> 100]
LegacyProxyUsers(S) == [n \in S |-> {<<"hdfs", "user">>}]

\* The names the zone holds.
Names == [groups |-> DOMAIN auth_groups, users |-> DOMAIN auth_users,
          proxy_users |-> DOMAIN hdfs_proxyusers]

\* Every catalog over the names, on a zone that holds no identity of the catalog.
InitCatalogs ==
    /\ identities \in Catalogs
    /\ script_path \in {TRUE}
    /\ auth_groups = BaseGroups
    /\ auth_users = <<>>
    /\ group_members = {}
    /\ hdfs_proxyusers = <<>>

\* The scenario catalog on every zone: taken IDs, identities that exist already.
InitZones ==
    /\ identities \in {c \in ScenarioCatalogs : c.groups = {} /\ c.proxy_users # <<>>}
    /\ script_path \in {TRUE}
    /\ \E T \in SUBSET ForeignIds(default_start_gid), S \in SUBSET GroupNames :
          auth_groups = BaseGroups @@ ForeignGroups(T) @@ LegacyGroups(S)
    /\ \E T \in SUBSET ForeignIds(default_start_uid), S \in SUBSET {"hdfs"} :
          /\ auth_users = ForeignUsers(T) @@ LegacyUsers(S)
          /\ group_members \in
                SUBSET {m \in {<<"hdfs", "hadoop">>} :
                          m[1] \in S /\ m[2] \in DOMAIN auth_groups}
    /\ hdfs_proxyusers \in {LegacyProxyUsers(S) : S \in SUBSET ProxyUserNames}

\* The scenario catalogs with and without a script, on an empty zone.
InitScripts ==
    /\ identities \in ScenarioCatalogs
    /\ script_path \in BOOLEAN
    /\ auth_groups = BaseGroups
    /\ auth_users = <<>>
    /\ group_members = {}
    /\ hdfs_proxyusers = <<>>

\* The sets iterate_identities iterates: identities['groups'], and for the
\* i-th user sgroup_names.union({pgroup_name}) and sgroup_names.
Sites ==
    {<<"groups", 0>>} \cup
    {<<p, i>> : p \in {"user_groups", "add_user_to_group"}, i \in 1..Len(AllUserNames)}
\* The orders in which a process may iterate them.
SetOrders ==
    {s \in [1..Cardinality(GroupNames) -> GroupNames] :
        \A i, j \in DOMAIN s : i # j => s[i] # s[j]}
Orders == [Sites -> SetOrders]

\* No catalog, on a zone without identities.
InitNone ==
    /\ identities = [groups |-> {}, users |-> <<>>, proxy_users |-> <<>>]
    /\ script_path = FALSE
    /\ auth_groups = BaseGroups
    /\ auth_users = <<>>
    /\ group_members = {}
    /\ hdfs_proxyusers = <<>>

\* The hosts a client may be pointed at, by their IP address.
Hosts == {"10.0.0.1", "10.0.0.2"}
\* No cluster answers.
NoOneFS ==
    [version |-> [h \in Hosts |-> [kind |-> "MaxRetryError", nodes |-> <<>>]],
     zones |-> <<>>, licenses |-> <<>>]

\* Creator.__init__, before any run; no decorated function has been called, no
\* binding has been asked for, no directory has been touched and no fixture has
\* run.
Idle ==
    /\ script = [exists |-> FALSE, lines |-> <<>>]
    /\ pc = "idle"
    /\ _next_uid = default_start_uid
    /\ _next_gid = default_start_gid
    /\ created_group_names = {}
    /\ idx = 0
    /\ todo = {}
    /\ cur = NoCur
    /\ calls = <<>>
    /\ handed_gids = <<>>
    /\ handed_uids = <<>>
    /\ ret = NoRet
    /\ flushes = 0
    /\ injected = FALSE
    /\ answer = NoAnswer
    /\ first_end = [pc |-> None, calls |-> <<>>, zone |-> Names, names |-> Names]
    /\ logged = <<>>
    /\ outcomes = <<>>
    /\ invoked = 0
    /\ slept = 0
    /\ wpc = "call"
    /\ exited = NoExit
    /\ selections = <<>>
    /\ host = None
    /\ _address = None
    /\ _revision = <<>>
    /\ _sdk = None
    /\ cpc = "new"
    /\ pending = None
    /\ via = [cls |-> None, address |-> None, default_zone |-> None]
    /\ checks = <<>>
    /\ constructed = NoExit
    /\ detections = <<>>
    /\ assigned = <<>>
    /\ license_check = NoExit
    /\ flushed = <<>>

\* The run that comes is the first one.
FreshRun == run = "first" /\ Idle

\* No directory catalog, an empty namespace.
NoTree ==
    /\ zone_settings = [path |-> <<>>]
    /\ hdfs_settings = [root_directory |-> <<>>]
    /\ directories = <<>>
    /\ namespace = <<>>
    /\ snapshots = [start |-> <<>>, before |-> <<>>, first |-> <<>>]
    /\ error = NoExit

\* No concurrent runs.
NoConcurrent == procs = <<>> /\ events = <<>>

\* The fixture has not run.
NoFixture == param = None /\ users = {} /\ groups = {}

FreshState == FreshRun /\ NoTree /\ NoConcurrent /\ NoFixture

\* The zones of the cluster.
Zones == {"System", "zone1"}

\* No Client has been constructed; the Creator is one of the zone 'zone1'.
FreshProcess ==
    /\ FreshState
    /\ default_zone = None
    /\ onefs_zone = "zone1"

Fresh ==
    /\ FreshProcess
    /\ onefs = NoOneFS

\* The order of a set's iteration is not known: any element may come next.
Unordered == [s \in Sites |-> <<>>]

Init ==
    /\ InitCatalogs \/ InitZones \/ InitScripts
    /\ order = Unordered
    /\ Fresh

----------------------------------------------------------------------------
\* The remote: what the OneFS API answers.  An answer is Ok or one error; the
\* conflicts carry the message formats of APIError.  When two conflicts apply
\* the API reports either.  In the first run any call may also fail with an error
\* that is none of the conflicts (Unrecognised), which is how a run is cut short;
\* the second run meets conflicts only.

Ok == [kind |-> "ok", id |-> 0, name |-> ""]
Unrecognised == [kind |-> "other", id |-> 0, name |-> ""]
Answers(conflicts) ==
    (IF conflicts = {} THEN {Ok} ELSE conflicts)
        \cup (IF run = "first" THEN {Unrecognised} ELSE {})

gids == Range(auth_groups)
uids == {auth_users[u].uid : u \in DOMAIN auth_users}

\* Client.create_group -> AuthApi.create_auth_group
create_auth_group(name, gid) ==
    Answers({[kind |-> "gid_already_exists", id |-> gid, name |-> ""] :
                x \in {g \in gids : g = gid}}
            \cup {[kind |-> "group_already_exists", id |-> 0, name |-> name] :
                x \in {n \in DOMAIN auth_groups : n = name}})

\* Client.create_user -> AuthApi.create_auth_user
create_auth_user(name, uid, primary_group_name) ==
    Answers({[kind |-> "uid_already_exists", id |-> uid, name |-> ""] :
                x \in {u \in uids : u = uid}}
            \cup {[kind |-> "user_already_exists", id |-> 0, name |-> name] :
                x \in {n \in DOMAIN auth_users : n = name}}
            \cup {[kind |-> "group_unresolvable", id |-> 0, name |-> primary_group_name] :
                x \in {primary_group_name} \ DOMAIN auth_groups})

\* Client.add_user_to_group -> AuthGroupsApi.create_group_member
create_group_member(user_name, group_name) ==
    Answers({[kind |-> "user_unresolvable", id |-> 0, name |-> user_name] :
                x \in {user_name} \ DOMAIN auth_users}
            \cup {[kind |-> "group_not_found", id |-> 0, name |-> group_name] :
                x \in {group_name} \ DOMAIN auth_groups}
            \cup {[kind |-> "user_already_in_group", id |-> auth_users[user_name].uid,
                   name |-> group_name] :
                x \in {m \in group_members : m = <<user_name, group_name>>}})

\* Client.create_hdfs_proxy_user -> ProtocolsApi.create_hdfs_proxyuser
create_hdfs_proxyuser(name) ==
    Answers({[kind |-> "proxy_user_already_exists", id |-> 0, name |-> name] :
                x \in {n \in DOMAIN hdfs_proxyusers : n = name}})

\* Client.gid_of_group, Client.uid_of_user, Client.primary_group_of_user
gid_of_group(group_name) == auth_groups[group_name]
uid_of_user(user_name) == auth_users[user_name].uid
primary_group_of_user(user_name) == auth_users[user_name].gid

\* APIError.*_error: the exception carries the message for this argument
\* mutant of gid_already_exists_error: the message never matches
gid_already_exists_error_never(exc, gid) == FALSE
gid_already_exists_error(exc, gid) == exc.kind = "gid_already_exists" /\ exc.id = gid
\* mutant of group_already_exists_error: the message never matches
group_already_exists_error_never(exc, group_name) == FALSE
group_already_exists_error(exc, group_name) ==
    exc.kind = "group_already_exists" /\ exc.name = group_name
uid_already_exists_error(exc, uid) == exc.kind = "uid_already_exists" /\ exc.id = uid
\* mutant of user_already_exists_error: the message never matches
user_already_exists_error_never(exc, user_name) == FALSE
user_already_exists_error(exc, user_name) ==
    exc.kind = "user_already_exists" /\ exc.name = user_name
\* mutant of user_already_in_group_error: the message never matches
user_already_in_group_error_never(exc, uid, group_name) == FALSE
user_already_in_group_error(exc, uid, group_name) ==
    exc.kind = "user_already_in_group" /\ exc.id = uid /\ exc.name = group_name
\* mutant of proxy_user_already_exists_error: the message never matches
proxy_user_already_exists_error_never(exc, proxy_user_name) == FALSE
proxy_user_already_exists_error(exc, proxy_user_name) ==
    exc.kind = "proxy_user_already_exists" /\ exc.name = proxy_user_name

----------------------------------------------------------------------------
\* The script file.

Line(cmd, id, gid, name, group) ==
    [cmd |-> cmd, id |-> id, gid |-> gid, name |-> name, group |-> group]
Preamble ==
    <<Line("#!/usr/bin/env sh", 0, 0, "", ""),
      Line("set -o errexit", 0, 0, "", ""),
      Line("set -o xtrace", 0, 0, "", "")>>

\* mutant of _create_script: the file is written anew whether it exists or not
_create_script_truncating(f) == [exists |-> TRUE, lines |-> Preamble]

\* Creator._create_script
_create_script(f) == IF ~f.exists THEN [exists |-> TRUE, lines |-> Preamble] ELSE f

\* mutant of create_identities_script: the file is left to the first action
create_identities_script_lazy(f) == f

\* create_identities: if self.script_path: (_create_script or self._create_script)()
create_identities_script(f) == IF script_path THEN _create_script(f) ELSE f

\* with open(self.script_path, 'a') as script_file: script_file.write(line)
write(f, line) == [exists |-> TRUE, lines |-> Append(f.lines, line)]

\* if self.script_path: self._create_script(); ...write(line)
script_line(line) == IF script_path THEN write(_create_script(script), line) ELSE script

----------------------------------------------------------------------------
\* iterate_identities: where the iteration stands.

\* mutant of ProxyAt: a run that issued no call returns without flushing
ProxyAt_flush_if_called(j) ==
    IF j <= Len(identities.proxy_users)
    THEN [pc |-> "proxy_users", idx |-> j, todo |-> {}]
    ELSE IF calls = <<>>
    THEN [pc |-> "done", idx |-> 0, todo |-> {}]
    ELSE [pc |-> "flush", idx |-> 0, todo |-> {}]

\* for proxy_user_name, members in identities['proxy_users'].items()
ProxyAt(j) ==
    IF j <= Len(identities.proxy_users)
    THEN [pc |-> "proxy_users", idx |-> j, todo |-> {}]
    ELSE [pc |-> "flush", idx |-> 0, todo |-> {}]

\* mutant of user_groups: the primary group is left out
user_groups_without_primary(u) == u.sgroups

\* mutant of user_groups: the secondary groups are left out
user_groups_primary_only(u) == {u.pgroup}

\* sgroup_names.union({pgroup_name})
user_groups(u) == u.sgroups \cup {u.pgroup}

\* for user_name, (pgroup_name, sgroup_names) in identities['users'].items()
UserAt(i) ==
    IF i <= Len(identities.users)
    THEN [pc |-> "user_groups", idx |-> i, todo |-> user_groups(identities.users[i])]
    ELSE ProxyAt(1)

\* mutant of GroupsLoop: the listed groups are left to the users' loop
GroupsLoop_skipped(t) == UserAt(1)

\* for group_name in identities['groups']
GroupsLoop(t) == IF t # {} THEN [pc |-> "groups", idx |-> 0, todo |-> t] ELSE UserAt(1)

\* for group_name in sgroup_names.union({pgroup_name}), then create_user
UserGroupsLoop(i, t) ==
    IF t # {}
    THEN [pc |-> "user_groups", idx |-> i, todo |-> t]
    ELSE [pc |-> "create_user", idx |-> i, todo |-> {}]

\* mutant of AddLoop: the proxy users follow the first user
AddLoop_then_proxy_users(i, t) ==
    IF t # {} THEN [pc |-> "add_user_to_group", idx |-> i, todo |-> t] ELSE ProxyAt(1)

\* for group_name in sgroup_names: add_user_to_group, then the next user
AddLoop(i, t) ==
    IF t # {} THEN [pc |-> "add_user_to_group", idx |-> i, todo |-> t] ELSE UserAt(i + 1)

\* mutant of AfterCreateUser: the additions are left out
AfterCreateUser_no_additions(i) == UserAt(i + 1)

\* after create_user(user_name, pgroup_name)
AfterCreateUser(i) == AddLoop(i, identities.users[i].sgroups)

\* for group_name in <set>: the elements of t that may come next
Pick(t) ==
    LET s == order[<<pc, idx>>] IN
    IF s = <<>> \/ t = {} THEN t ELSE {s[Min({i \in DOMAIN s : s[i] \in t})]}

\* create_identities was called with the callbacks of Creator
\* (create_group or self.create_group, ...), not those of log_identities.
Creating == run \in {"first", "second"}

GroupLoopNext(t) == IF pc = "groups" THEN GroupsLoop(t) ELSE UserGroupsLoop(idx, t)

Goto(p) == pc' = p.pc /\ idx' = p.idx /\ todo' = p.todo

\* mutant of Raise: the failure is caught and the run goes on to the flush
Raise_then_flush(exc) ==
    /\ pc' = "flush"
    /\ cur' = NoCur
    /\ injected' = (injected \/ exc = Unrecognised)
    /\ UNCHANGED <<idx, todo>>

\* an exception leaves create_identities
Raise(exc) ==
    /\ pc' = "raised"
    /\ cur' = NoCur
    /\ injected' = (injected \/ exc = Unrecognised)
    /\ UNCHANGED <<idx, todo>>

\* mutant of advance: the counter stays
advance_not(id) == id

\* mutant of advance: the counter is read twice per attempt
advance_twice(id) == id + 2

\* Creator.next_gid / next_uid: finally: self._next_gid += 1
advance(id) == id + 1

\* mutant of existing_gid: the allocated GID is kept
existing_gid_allocated(group_name, gid) == gid

\* create_group: gid = self.onefs.gid_of_group(group_name=group_name, ...)
existing_gid(group_name, gid) == gid_of_group(group_name)

\* mutant of existing_uid: the allocated UID is kept
existing_uid_allocated(user_name, uid) == uid

\* create_user: uid = self.onefs.uid_of_user(user_name=user_name, ...)
existing_uid(user_name, uid) == uid_of_user(user_name)

----------------------------------------------------------------------------
\* Creator.create_identities, up to the call of iterate_identities, on a fresh
\* Creator (Creator.__init__).
Enter(r) ==
    /\ run' = r
    /\ _next_uid' = default_start_uid
    /\ _next_gid' = default_start_gid
    /\ script' = create_identities_script(script)
    /\ created_group_names' = {}
    /\ Goto(GroupsLoop(identities.groups))
    /\ cur' = NoCur
    /\ calls' = <<>>
    /\ handed_gids' = <<>>
    /\ handed_uids' = <<>>
    /\ ret' = NoRet
    /\ flushes' = 0
    /\ injected' = FALSE
    /\ answer' = NoAnswer
    /\ flushed' = <<>>
    /\ UNCHANGED <<catalog, logged, wrapper, selections, client, elsewhere, remote>>

first_run ==
    /\ run = "first" /\ pc = "idle"
    /\ Enter("first")
    /\ UNCHANGED first_end

second_run ==
    /\ run = "first" /\ pc \in {"done", "raised"}
    /\ first_end' = [first_end EXCEPT !.pc = pc, !.calls = calls, !.names = Names]
    /\ Enter("second")

\* iterate_identities: if group_name not in created_group_names (else branch)
skip_group ==
    /\ pc \in {"groups", "user_groups"} /\ cur = NoCur
    /\ \E group_name \in Pick(todo) \cap created_group_names :
          Goto(GroupLoopNext(todo \ {group_name}))
    /\ UNCHANGED <<catalog, logged, wrapper, selections, client, others, remote, script, run, _next_uid, _next_gid,
                   created_group_names, cur, calls, handed_gids, handed_uids,
                   ret, flushes, injected, answer, first_end>>

\* mutant of group_returns: iterate_identities does not add the name
group_returns_forgetting(group_name, how, gid, alloc, entry) ==
    /\ script' = script_line(Line("groupadd", gid, 0, group_name, ""))
    /\ Goto(GroupLoopNext(todo \ {group_name}))
    /\ cur' = NoCur
    /\ ret' = [op |-> "create_group", name |-> group_name, how |-> how, id |-> gid,
               alloc |-> alloc, entry |-> entry, before |-> auth_groups,
               after |-> auth_groups']
    /\ UNCHANGED <<injected, created_group_names>>

\* Creator.create_group returns gid (and iterate_identities adds the name)
group_returns(group_name, how, gid, alloc, entry) ==
    /\ script' = script_line(Line("groupadd", gid, 0, group_name, ""))
    /\ created_group_names' = created_group_names \cup {group_name}
    /\ Goto(GroupLoopNext(todo \ {group_name}))
    /\ cur' = NoCur
    /\ ret' = [op |-> "create_group", name |-> group_name, how |-> how, id |-> gid,
               alloc |-> alloc, entry |-> entry, before |-> auth_groups,
               after |-> auth_groups']
    /\ UNCHANGED injected

\* Creator.create_group: one pass of the while loop
create_group ==
    /\ Creating /\ pc \in {"groups", "user_groups"}
    /\ \E group_name \in
            (IF cur = NoCur THEN Pick(todo) \ created_group_names ELSE {cur.name}) :
       \E exc \in create_auth_group(group_name, _next_gid) :
          LET gid == _next_gid
              entry == IF cur = NoCur THEN _next_gid ELSE cur.entry
          IN
          /\ _next_gid' = advance(_next_gid)
          /\ answer' = exc
          /\ handed_gids' = Append(handed_gids, gid)
          /\ calls' = IF cur = NoCur
                       THEN Append(calls, Call("create_group", group_name, ""))
                       ELSE calls
          /\ IF exc = Ok
                THEN /\ auth_groups' = auth_groups @@ (group_name :> gid)
                     /\ group_returns(group_name, "created", gid, gid, entry)
             ELSE IF gid_already_exists_error(exc, gid)
                THEN /\ cur' = [name |-> group_name, entry |-> entry]
                     /\ UNCHANGED <<auth_groups, script, created_group_names, pc, idx,
                                    todo, ret, injected>>
             ELSE IF group_already_exists_error(exc, group_name)
                THEN /\ UNCHANGED auth_groups
                     /\ group_returns(group_name, "exists",
                                      existing_gid(group_name, gid), gid, entry)
             ELSE /\ Raise(exc)
                  /\ UNCHANGED <<auth_groups, script, created_group_names, ret>>
    /\ UNCHANGED <<catalog, logged, wrapper, selections, client, others, auth_users, group_members, hdfs_proxyusers, run,
                   _next_uid, handed_uids, flushes, first_end>>

\* Creator.create_user returns uid
user_returns(user_name, how, uid, alloc, entry) ==
    /\ script' = script_line(Line("useradd", uid,
                     gid_of_group(auth_users'[user_name].gid), user_name, ""))
    /\ Goto(AfterCreateUser(idx))
    /\ cur' = NoCur
    /\ ret' = [op |-> "create_user", name |-> user_name, how |-> how, id |-> uid,
               alloc |-> alloc, entry |-> entry, before |-> auth_users,
               after |-> auth_users']
    /\ UNCHANGED injected

\* Creator.create_user: one pass of the while loop
create_user ==
    /\ Creating /\ pc = "create_user"
    /\ LET user_name == identities.users[idx].name
           primary_group_name == identities.users[idx].pgroup
           uid == _next_uid
           entry == IF cur = NoCur THEN _next_uid ELSE cur.entry
       IN
       \E exc \in create_auth_user(user_name, uid, primary_group_name) :
          /\ _next_uid' = advance(_next_uid)
          /\ answer' = exc
          /\ handed_uids' = Append(handed_uids, uid)
          /\ calls' = IF cur = NoCur
                       THEN Append(calls, Call("create_user", user_name, primary_group_name))
                       ELSE calls
          /\ IF exc = Ok
                THEN /\ auth_users' = auth_users @@
                            (user_name :> [uid |-> uid, gid |-> primary_group_name])
                     /\ user_returns(user_name, "created", uid, uid, entry)
             ELSE IF uid_already_exists_error(exc, uid)
                THEN /\ cur' = [name |-> user_name, entry |-> entry]
                     /\ UNCHANGED <<auth_users, script, pc, idx, todo, ret, injected>>
             ELSE IF user_already_exists_error(exc, user_name)
                THEN /\ UNCHANGED auth_users
                     /\ user_returns(user_name, "exists", existing_uid(user_name, uid), uid,
                                     entry)
             ELSE /\ Raise(exc)
                  /\ UNCHANGED <<auth_users, script, ret>>
    /\ UNCHANGED <<catalog, logged, wrapper, selections, client, others, auth_groups, group_members, hdfs_proxyusers, run,
                   _next_gid, created_group_names, handed_gids, flushes, first_end>>

\* Creator.add_user_to_group
add_user_to_group ==
    /\ Creating /\ pc = "add_user_to_group"
    /\ LET user_name == identities.users[idx].name IN
       \E group_name \in Pick(todo) :
       \E exc \in create_group_member(user_name, group_name) :
          /\ calls' = Append(calls, Call("add_user_to_group", user_name, group_name))
          /\ answer' = exc
          /\ IF exc = Ok \/ (/\ user_name \in DOMAIN auth_users
                              /\ user_already_in_group_error(
                                     exc, uid_of_user(user_name), group_name))
                THEN /\ group_members' =
                            IF exc = Ok
                            THEN group_members \cup {<<user_name, group_name>>}
                            ELSE group_members
                     /\ script' = script_line(Line("usermod", 0, 0, user_name, group_name))
                     /\ Goto(AddLoop(idx, todo \ {group_name}))
                     /\ UNCHANGED <<cur, injected>>
             ELSE /\ Raise(exc)
                  /\ UNCHANGED <<group_members, script>>
    /\ UNCHANGED <<catalog, logged, wrapper, selections, client, others, auth_groups, auth_users, hdfs_proxyusers, run, _next_uid,
                   _next_gid, created_group_names, handed_gids, handed_uids, ret,
                   flushes, first_end>>

\* Creator.create_proxy_user
create_proxy_user ==
    /\ Creating /\ pc = "proxy_users"
    /\ LET proxy_user_name == identities.proxy_users[idx].name
           members == identities.proxy_users[idx].members
       IN
       \E exc \in create_hdfs_proxyuser(proxy_user_name) :
          /\ calls' = Append(calls, Call("create_proxy_user", proxy_user_name, ""))
          /\ answer' = exc
          /\ IF exc = Ok
                THEN /\ hdfs_proxyusers' = hdfs_proxyusers @@ (proxy_user_name :> members)
                     /\ Goto(ProxyAt(idx + 1))
                     /\ UNCHANGED <<cur, injected>>
             ELSE IF proxy_user_already_exists_error(exc, proxy_user_name)
                THEN /\ Goto(ProxyAt(idx + 1))
                     /\ UNCHANGED <<hdfs_proxyusers, cur, injected>>
             ELSE /\ Raise(exc)
                  /\ UNCHANGED hdfs_proxyusers
    /\ UNCHANGED <<catalog, logged, wrapper, selections, client, others, auth_groups, auth_users, group_members, script, run,
                   _next_uid, _next_gid, created_group_names, handed_gids,
                   handed_uids, ret, flushes, first_end>>

\* Client.flush_auth_cache: zone or self.default_zone
flush_zone(zone) == IF zone # None THEN zone ELSE default_zone

\* Creator.create_identities: (_flush_auth_cache or self.onefs.flush_auth_cache)(),
\* a call without arguments
flush_auth_cache ==
    /\ Creating /\ pc = "flush"
    /\ calls' = Append(calls, Call("flush_auth_cache", "", ""))
    /\ flushed' = Append(flushed, flush_zone(None))
    /\ \E exc \in Answers({}) :
          /\ answer' = exc
          /\ IF exc = Ok
                THEN /\ flushes' = flushes + 1
                     /\ pc' = "done"
                     /\ UNCHANGED <<idx, todo, cur, injected>>
             ELSE /\ Raise(exc)
                  /\ UNCHANGED flushes
    /\ UNCHANGED <<catalog, logged, wrapper, selections, client, elsewhere, remote, script, run, _next_uid, _next_gid,
                   created_group_names, handed_gids, handed_uids, ret, first_end>>

Next ==
    \/ first_run
    \/ second_run
    \/ skip_group
    \/ create_group
    \/ create_user
    \/ add_user_to_group
    \/ create_proxy_user
    \/ flush_auth_cache

Spec == Init /\ [][Next]_vars

\* The run is one synchronous flow: a step that can be taken is taken.
FairSpec == Spec /\ WF_vars(Next)

\* The runs of a Creator of any zone, on a Client with any default zone
\* (Client.__init__: default_zone='System').
ZoneInit ==
    /\ InitScripts
    /\ order = Unordered
    /\ FreshState
    /\ onefs = NoOneFS
    /\ default_zone \in Zones
    /\ onefs_zone \in Zones

ZoneSpec == ZoneInit /\ [][Next]_vars

----------------------------------------------------------------------------
\* Creator.log_identities: create_identities with the logging callbacks, a flush
\* that does nothing and a _create_script that does nothing.

log_identities ==
    /\ run = "first" /\ pc = "idle"
    /\ run' = "dry"
    /\ logged' = <<>>
    /\ created_group_names' = {}
    /\ Goto(GroupsLoop(identities.groups))
    /\ UNCHANGED <<catalog, wrapper, selections, client, others, remote, script, _next_uid, _next_gid, cur, calls,
                   handed_gids, handed_uids, ret, flushes, injected, answer, first_end>>

\* what a logging callback leaves alone
Logs(entry) ==
    /\ logged' = Append(logged, entry)
    /\ UNCHANGED <<catalog, wrapper, selections, client, others, remote, script, run, _next_uid, _next_gid, cur,
                   calls, handed_gids, handed_uids, ret, flushes, injected, answer,
                   first_end>>

_log_create_group ==
    /\ run = "dry" /\ pc \in {"groups", "user_groups"}
    /\ \E group_name \in Pick(todo) \ created_group_names :
          /\ Logs(Call("create_group", group_name, ""))
          /\ created_group_names' = created_group_names \cup {group_name}
          /\ Goto(GroupLoopNext(todo \ {group_name}))

\* mutant of _log_create_user: the callback of add_user_to_group is passed
_log_create_user_as_addition ==
    /\ run = "dry" /\ pc = "create_user"
    /\ Logs(Call("add_user_to_group", identities.users[idx].name,
                  identities.users[idx].pgroup))
    /\ Goto(AfterCreateUser(idx))
    /\ UNCHANGED created_group_names

_log_create_user ==
    /\ run = "dry" /\ pc = "create_user"
    /\ Logs(Call("create_user", identities.users[idx].name, identities.users[idx].pgroup))
    /\ Goto(AfterCreateUser(idx))
    /\ UNCHANGED created_group_names

_log_add_user_to_group ==
    /\ run = "dry" /\ pc = "add_user_to_group"
    /\ \E group_name \in Pick(todo) :
          /\ Logs(Call("add_user_to_group", identities.users[idx].name, group_name))
          /\ Goto(AddLoop(idx, todo \ {group_name}))
    /\ UNCHANGED created_group_names

_log_create_proxy_user ==
    /\ run = "dry" /\ pc = "proxy_users"
    /\ Logs(Call("create_proxy_user", identities.proxy_users[idx].name, ""))
    /\ Goto(ProxyAt(idx + 1))
    /\ UNCHANGED created_group_names

\* _flush_auth_cache=lambda: None, and log_identities returns
_log_flush_auth_cache ==
    /\ run = "dry" /\ pc = "flush"
    /\ pc' = "done"
    /\ UNCHANGED <<catalog, wrapper, selections, client, others, remote, script, run, _next_uid, _next_gid,
                   created_group_names, idx, todo, cur, calls, handed_gids, handed_uids,
                   ret, flushes, injected, answer, first_end, logged>>

\* create_identities on the same Creator, once log_identities has returned
create_identities_after_log ==
    /\ run = "dry" /\ pc = "done"
    /\ Enter("first")
    /\ UNCHANGED first_end

\* A dry run, then a run, of every catalog, on zones with and without the
\* catalog's identities, under every iteration order.
DryInit ==
    /\ InitCatalogs \/ InitZones
    /\ order \in Orders
    /\ Fresh

DryNext ==
    \/ log_identities
    \/ skip_group
    \/ _log_create_group
    \/ _log_create_user
    \/ _log_add_user_to_group
    \/ _log_create_proxy_user
    \/ _log_flush_auth_cache
    \/ create_identities_after_log
    \/ create_group
    \/ create_user
    \/ add_user_to_group
    \/ create_proxy_user
    \/ flush_auth_cache

DrySpec == DryInit /\ [][DryNext]_vars

----------------------------------------------------------------------------
\* accesses_onefs: one call of a decorated function.  func returns a value or
\* raises; an SDK ApiException carries a body and a reason.

\* APIError.try_again_error_format
try_again_error_format == "OneFS API is temporarily unavailable. Try your request again."
Messages == {try_again_error_format, ""}

\* The entries of a body's 'errors': {"message": m}, {} and [].
Entries ==
    {[kind |-> "message", message |-> m] : m \in Messages}
        \cup {[kind |-> k, message |-> None] : k \in {"{}", "[]"}}
ErrorLists == {<<>>} \cup {<<e>> : e \in Entries} \cup {<<d, e>> : d, e \in Entries}

\* ApiException.body: none, '', 'not JSON', '[]', '{}', '{"errors": null}',
\* '{"errors": [...]}'
Body(kind, errors, items) == [kind |-> kind, errors |-> errors, items |-> items]
Bodies ==
    {Body(k, "missing", <<>>) : k \in {None, "empty", "not JSON", "[]", "{}"}}
        \cup {Body("{}", "null", <<>>)}
        \cup {Body("{}", "list", l) : l \in ErrorLists}

\* ApiException.reason
certificate_verify_failed == "[SSL: CERTIFICATE_VERIFY_FAILED] certificate verify failed"
Reasons == {None, "Bad Request", certificate_verify_failed}

\* What one invocation of func does.
FuncOutcomes ==
    {[kind |-> "return", value |-> v, reason |-> None, body |-> Body(None, "missing", <<>>)] :
        v \in {None, "value"}}
    \cup {[kind |-> "MaxRetryError", value |-> None, reason |-> r,
           body |-> Body(None, "missing", <<>>)] :
        r \in {None, "SSLError", "NewConnectionError"}}
    \cup {[kind |-> "ApiException", value |-> None, reason |-> r, body |-> b] :
        r \in Reasons, b \in Bodies}
    \cup {[kind |-> "Exception", value |-> None, reason |-> None,
           body |-> Body(None, "missing", <<>>)]}

\* Bound of the model: the temporarily-unavailable failures one call meets.
MaxTryAgain == 2

Returns(value) ==
    [how |-> "return", type |-> None, cause |-> None, exc |-> None, value |-> value]
\* raise_from(type(exc), cause)
raise_from(type, exc, cause) ==
    [how |-> "raise", type |-> type, cause |-> cause, exc |-> exc, value |-> None]
Retry == [how |-> "retry", type |-> None, cause |-> None, exc |-> None, value |-> None]

RECURSIVE FirstInvalid(_, _)
\* for error in json_body['errors']: error['message']
FirstInvalid(items, i) ==
    IF i > Len(items) THEN 0
    ELSE IF items[i].kind # "message" THEN i
    ELSE FirstInvalid(items, i + 1)

\* mutant of errors: the entries are not looked at
errors_unvalidated(body) ==
    IF body.kind = None THEN raise_from("UndecodableAPIError", "ApiException", "TypeError")
    ELSE IF body.kind \in {"empty", "not JSON"}
        THEN raise_from("UndecodableAPIError", "ApiException", "ValueError")
    ELSE IF body.kind = "[]" THEN raise_from("MalformedAPIError", "ApiException", "TypeError")
    ELSE IF body.errors = "missing"
        THEN raise_from("MalformedAPIError", "ApiException", "KeyError")
    ELSE IF body.errors = "null"
        THEN raise_from("MalformedAPIError", "ApiException", "TypeError")
    ELSE Returns(body.items)

\* mutant of errors: a body that is not JSON is taken for an empty list
errors_lenient(body) ==
    IF body.kind = None THEN raise_from("UndecodableAPIError", "ApiException", "TypeError")
    ELSE IF body.kind \in {"empty", "not JSON"} THEN Returns(<<>>)
    ELSE IF body.kind = "[]" THEN raise_from("MalformedAPIError", "ApiException", "TypeError")
    ELSE IF body.errors = "missing"
        THEN raise_from("MalformedAPIError", "ApiException", "KeyError")
    ELSE IF body.errors = "null"
        THEN raise_from("MalformedAPIError", "ApiException", "TypeError")
    ELSE LET i == FirstInvalid(body.items, 1) IN
         IF i = 0 THEN Returns(body.items)
         ELSE raise_from("MalformedAPIError", "ApiException",
                         IF body.items[i].kind = "{}" THEN "KeyError" ELSE "TypeError")

\* APIError.errors
errors(body) ==
    IF body.kind = None THEN raise_from("UndecodableAPIError", "ApiException", "TypeError")
    ELSE IF body.kind \in {"empty", "not JSON"}
        THEN raise_from("UndecodableAPIError", "ApiException", "ValueError")
    ELSE IF body.kind = "[]" THEN raise_from("MalformedAPIError", "ApiException", "TypeError")
    ELSE IF body.errors = "missing"
        THEN raise_from("MalformedAPIError", "ApiException", "KeyError")
    ELSE IF body.errors = "null"
        THEN raise_from("MalformedAPIError", "ApiException", "TypeError")
    ELSE LET i == FirstInvalid(body.items, 1) IN
         IF i = 0 THEN Returns(body.items)
         ELSE raise_from("MalformedAPIError", "ApiException",
                         IF body.items[i].kind = "{}" THEN "KeyError" ELSE "TypeError")

\* mutant of try_again_error: the first message alone is looked at
try_again_error_first(errs) ==
    Len(errs) >= 1 /\ errs[1].message = try_again_error_format

\* APIError.try_again_error, on the errors that errors() returned
try_again_error(errs) ==
    \E i \in 1..Len(errs) : errs[i].message = try_again_error_format

\* mutant of max_retry_error: the reason is not looked at
max_retry_error_connection(reason) == "OneFSConnectionError"

\* except urllib3.exceptions.MaxRetryError: the class raised
max_retry_error(reason) ==
    IF reason = "SSLError" THEN "OneFSCertificateError" ELSE "OneFSConnectionError"

\* mutant of certificate_error: the reason is not looked at
certificate_error_never(out) == FALSE

\* except ApiException: not exc.body and 'CERTIFICATE_VERIFY_FAILED' in (exc.reason or '')
certificate_error(out) ==
    /\ out.body.kind \in {None, "empty"}
    /\ out.reason = certificate_verify_failed

\* mutant of accesses_onefs: an API error that is not to be retried is logged
\* and the call returns nothing
accesses_onefs_swallowing(out) ==
    IF out.kind = "return" THEN Returns(out.value)
    ELSE IF out.kind = "MaxRetryError"
        THEN raise_from(max_retry_error(out.reason), None, "MaxRetryError")
    ELSE IF out.kind = "ApiException"
        THEN IF certificate_error(out)
                THEN raise_from("OneFSCertificateError", None, "ApiException")
             ELSE LET errs == errors(out.body) IN
                  IF errs.how = "raise" THEN errs
                  ELSE IF ~try_again_error(errs.value) THEN Returns(None)
                  ELSE Retry
    ELSE raise_from(out.kind, None, None)

\* mutant of accesses_onefs: every other exception is caught and wrapped
accesses_onefs_catching(out) ==
    IF out.kind = "return" THEN Returns(out.value)
    ELSE IF out.kind = "MaxRetryError"
        THEN raise_from(max_retry_error(out.reason), None, "MaxRetryError")
    ELSE IF out.kind = "ApiException"
        THEN IF certificate_error(out)
                THEN raise_from("OneFSCertificateError", None, "ApiException")
             ELSE LET errs == errors(out.body) IN
                  IF errs.how = "raise" THEN errs
                  ELSE IF ~try_again_error(errs.value)
                      THEN raise_from("APIError", "ApiException", "ApiException")
                  ELSE Retry
    ELSE raise_from("OneFSConnectionError", None, out.kind)

\* _decorated: one pass of the while loop, for what func did
accesses_onefs(out) ==
    IF out.kind = "return" THEN Returns(out.value)
    ELSE IF out.kind = "MaxRetryError"
        THEN raise_from(max_retry_error(out.reason), None, "MaxRetryError")
    ELSE IF out.kind = "ApiException"
        THEN IF certificate_error(out)
                THEN raise_from("OneFSCertificateError", None, "ApiException")
             ELSE LET errs == errors(out.body) IN
                  IF errs.how = "raise" THEN errs
                  ELSE IF ~try_again_error(errs.value)
                      THEN raise_from("APIError", "ApiException", "ApiException")
                  ELSE Retry
    ELSE raise_from(out.kind, None, None)

\* what the decorator leaves alone
OutsideWrapper ==
    <<catalog, remote, script, run, pc, _next_uid, _next_gid, created_group_names,
      idx, todo, cur, calls, handed_gids, handed_uids, ret, flushes, injected, answer,
      first_end, logged, selections, client, others>>

\* _decorated: func is invoked, and returns or raises
_decorated ==
    /\ wpc = "call"
    /\ \E out \in FuncOutcomes :
          LET exit == accesses_onefs(out) IN
          /\ exit.how = "retry" => slept < MaxTryAgain
          /\ outcomes' = Append(outcomes, out)
          /\ invoked' = invoked + 1
          /\ IF exit.how = "retry"
                THEN wpc' = "sleep" /\ UNCHANGED exited
                ELSE /\ wpc' = (IF exit.how = "return" THEN "returned" ELSE "raised")
                     /\ exited' = exit
    /\ UNCHANGED <<slept, OutsideWrapper>>

\* time.sleep(2), and the loop goes round
sleep ==
    /\ wpc = "sleep"
    /\ slept' = slept + 1
    /\ wpc' = "call"
    /\ UNCHANGED <<outcomes, invoked, exited, OutsideWrapper>>

WrapperInit ==
    /\ InitNone
    /\ order = Unordered
    /\ Fresh

WrapperNext ==
    \/ _decorated
    \/ sleep

WrapperSpec == WrapperInit /\ [][WrapperNext]_vars


----------------------------------------------------------------------------
\* sdk_for_revision: the binding for a revision number.

\* A revision number, 0xMmmtt5ppppbbbbb in the source: major, minor and
\* maintenance version, release type, patch and build, here with one hex digit
\* for each field but the build, which has two.  The order of the numbers is
\* the order of the source's.
Revision(major, minor, maintenance, type, patch, build) ==
    ((((major * 16 + minor) * 16 + maintenance) * 16 + type) * 16 + patch) * 256 + build

ReleaseNames ==
    {"7.2.0.0", "8.0.0.0", "8.0.0.4", "8.0.1.0", "8.0.1.1", "8.1.0.0", "8.1.1.0",
     "8.1.2.0", "8.1.3.0", "8.2.0.0", "8.2.1.0", "8.2.2.0", "8.2.3.0"}

ONEFS_RELEASES ==
    [n \in ReleaseNames |->
        CASE n = "7.2.0.0" -> Revision(7, 2, 0, 5, 0, 10)     \* 0x70200500000000A
          [] n = "8.0.0.0" -> Revision(8, 0, 0, 5, 0, 37)     \* 0x800005000000025
          [] n = "8.0.0.4" -> Revision(8, 0, 0, 5, 4, 53)     \* 0x800005000400035
          [] n = "8.0.1.0" -> Revision(8, 0, 1, 5, 0, 7)      \* 0x800015000000007
          [] n = "8.0.1.1" -> Revision(8, 0, 1, 5, 1, 112)    \* 0x800015000100070
          [] n = "8.1.0.0" -> Revision(8, 1, 0, 5, 0, 11)     \* 0x80100500000000B
          [] n = "8.1.1.0" -> Revision(8, 1, 1, 5, 0, 212)    \* 0x8010150000000D4
          [] n = "8.1.2.0" -> Revision(8, 1, 2, 5, 0, 16)     \* 0x801025000000010
          [] n = "8.1.3.0" -> Revision(8, 1, 3, 5, 0, 13)     \* 0x80103500000000D
          [] n = "8.2.0.0" -> Revision(8, 2, 0, 5, 0, 11)     \* 0x80200500000000B
          [] n = "8.2.1.0" -> Revision(8, 2, 1, 5, 0, 4)      \* 0x802015000000004
          [] n = "8.2.2.0" -> Revision(8, 2, 2, 5, 0, 7)      \* 0x802025000000007
          [] n = "8.2.3.0" -> Revision(8, 2, 3, 5, 0, 0)]     \* 0x802035000000000

\* The revisions asked about: every release, the revisions next to it, a
\* revision older than every release (0) and one newer than every release
\* (float('inf') in the tests).
Revisions ==
    UNION {{ONEFS_RELEASES[n] - 1, ONEFS_RELEASES[n], ONEFS_RELEASES[n] + 1} :
              n \in ReleaseNames}
        \cup {0, Revision(15, 15, 15, 15, 15, 255)}

UnsupportedVersion == raise_from("UnsupportedVersion", None, None)

\* mutant of sdk_for_revision: the range of isi_sdk_8_0 ends at 8.0.0.4
sdk_for_revision_gap(revision_, strict) ==
    IF ONEFS_RELEASES["7.2.0.0"] <= revision_ /\ revision_ < ONEFS_RELEASES["8.0.0.0"]
        THEN Returns("isi_sdk_7_2")
    ELSE IF ONEFS_RELEASES["8.0.0.0"] <= revision_ /\ revision_ < ONEFS_RELEASES["8.0.0.4"]
        THEN Returns("isi_sdk_8_0")
    ELSE IF ONEFS_RELEASES["8.0.1.0"] <= revision_ /\ revision_ < ONEFS_RELEASES["8.1.0.0"]
        THEN Returns("isi_sdk_8_0_1")
    ELSE IF ONEFS_RELEASES["8.1.0.0"] <= revision_ /\ revision_ < ONEFS_RELEASES["8.1.1.0"]
        THEN Returns("isi_sdk_8_1_0")
    ELSE IF ONEFS_RELEASES["8.1.1.0"] <= revision_ /\ revision_ < ONEFS_RELEASES["8.2.0.0"]
        THEN Returns("isi_sdk_8_1_1")
    ELSE IF ONEFS_RELEASES["8.2.0.0"] <= revision_ /\ revision_ < ONEFS_RELEASES["8.2.1.0"]
        THEN Returns("isi_sdk_8_2_0")
    ELSE IF ONEFS_RELEASES["8.2.1.0"] <= revision_ /\ revision_ < ONEFS_RELEASES["8.2.2.0"]
        THEN Returns("isi_sdk_8_2_1")
    ELSE IF ONEFS_RELEASES["8.2.2.0"] <= revision_ /\ revision_ < ONEFS_RELEASES["8.2.3.0"]
        THEN Returns("isi_sdk_8_2_2")
    ELSE IF strict THEN UnsupportedVersion
    ELSE Returns("isi_sdk_8_2_2")

\* mutant of sdk_for_revision: a revision older than every release gets the
\* oldest binding
sdk_for_revision_oldest(revision_, strict) ==
    IF revision_ < ONEFS_RELEASES["8.0.0.0"] THEN Returns("isi_sdk_7_2")
    ELSE IF ONEFS_RELEASES["8.0.0.0"] <= revision_ /\ revision_ < ONEFS_RELEASES["8.0.1.0"]
        THEN Returns("isi_sdk_8_0")
    ELSE IF ONEFS_RELEASES["8.0.1.0"] <= revision_ /\ revision_ < ONEFS_RELEASES["8.1.0.0"]
        THEN Returns("isi_sdk_8_0_1")
    ELSE IF ONEFS_RELEASES["8.1.0.0"] <= revision_ /\ revision_ < ONEFS_RELEASES["8.1.1.0"]
        THEN Returns("isi_sdk_8_1_0")
    ELSE IF ONEFS_RELEASES["8.1.1.0"] <= revision_ /\ revision_ < ONEFS_RELEASES["8.2.0.0"]
        THEN Returns("isi_sdk_8_1_1")
    ELSE IF ONEFS_RELEASES["8.2.0.0"] <= revision_ /\ revision_ < ONEFS_RELEASES["8.2.1.0"]
        THEN Returns("isi_sdk_8_2_0")
    ELSE IF ONEFS_RELEASES["8.2.1.0"] <= revision_ /\ revision_ < ONEFS_RELEASES["8.2.2.0"]
        THEN Returns("isi_sdk_8_2_1")
    ELSE IF ONEFS_RELEASES["8.2.2.0"] <= revision_ /\ revision_ < ONEFS_RELEASES["8.2.3.0"]
        THEN Returns("isi_sdk_8_2_2")
    ELSE IF strict THEN UnsupportedVersion
    ELSE Returns("isi_sdk_8_2_2")

\* sdk_for_revision(revision, strict=False)
sdk_for_revision(revision_, strict) ==
    IF ONEFS_RELEASES["7.2.0.0"] <= revision_ /\ revision_ < ONEFS_RELEASES["8.0.0.0"]
        THEN Returns("isi_sdk_7_2")
    ELSE IF ONEFS_RELEASES["8.0.0.0"] <= revision_ /\ revision_ < ONEFS_RELEASES["8.0.1.0"]
        THEN Returns("isi_sdk_8_0")
    ELSE IF ONEFS_RELEASES["8.0.1.0"] <= revision_ /\ revision_ < ONEFS_RELEASES["8.1.0.0"]
        THEN Returns("isi_sdk_8_0_1")
    ELSE IF ONEFS_RELEASES["8.1.0.0"] <= revision_ /\ revision_ < ONEFS_RELEASES["8.1.1.0"]
        THEN Returns("isi_sdk_8_1_0")
    ELSE IF ONEFS_RELEASES["8.1.1.0"] <= revision_ /\ revision_ < ONEFS_RELEASES["8.2.0.0"]
        THEN Returns("isi_sdk_8_1_1")
    ELSE IF ONEFS_RELEASES["8.2.0.0"] <= revision_ /\ revision_ < ONEFS_RELEASES["8.2.1.0"]
        THEN Returns("isi_sdk_8_2_0")
    ELSE IF ONEFS_RELEASES["8.2.1.0"] <= revision_ /\ revision_ < ONEFS_RELEASES["8.2.2.0"]
        THEN Returns("isi_sdk_8_2_1")
    ELSE IF ONEFS_RELEASES["8.2.2.0"] <= revision_ /\ revision_ < ONEFS_RELEASES["8.2.3.0"]
        THEN Returns("isi_sdk_8_2_2")
    ELSE IF strict THEN UnsupportedVersion
    ELSE Returns("isi_sdk_8_2_2")

\* Bound of the model: the calls of sdk_for_revision in one behaviour.
MaxSelections == 2

\* a caller asks for the binding of a revision
select ==
    /\ Len(selections) < MaxSelections
    /\ \E r \in Revisions, strict \in BOOLEAN :
          LET sdk == sdk_for_revision(r, strict) IN
          selections' = Append(selections,
              [revision |-> r, strict |-> strict, how |-> sdk.how, type |-> sdk.type,
               sdk |-> sdk.value])
    /\ UNCHANGED <<catalog, remote, script, run, pc, _next_uid, _next_gid,
                   created_group_names, idx, todo, cur, calls, handed_gids, handed_uids,
                   ret, flushes, injected, answer, first_end, logged, wrapper, client,
                   others>>

SdkInit ==
    /\ InitNone
    /\ order = Unordered
    /\ Fresh

SdkNext == select

SdkSpec == SdkInit /\ [][SdkNext]_vars


----------------------------------------------------------------------------
\* Client: construction, the address and host setters, check_license.  A host
\* is named by its IP address; the scheme, port and path of the URL, which the
\* address setter keeps, are left out.

\* socket.gethostbyname: the IP address of a name, or gaierror
Addresses == {"one.example", "two.example", "nowhere.example"}
gaierror == "gaierror"
gethostbyname(address) ==
    CASE address = "one.example" -> "10.0.0.1"
      [] address = "two.example" -> "10.0.0.2"
      [] OTHER -> gaierror

\* get_cluster_version: int(node.revision) of each node, by node.  The nodes of
\* a cluster run one release or two.
NodeRevisions == {ONEFS_RELEASES["8.0.0.4"], ONEFS_RELEASES["8.2.1.0"]}
NodeLists ==
    {<<r>> : r \in NodeRevisions}
        \cup {<<ONEFS_RELEASES["8.2.1.0"], r>> : r \in NodeRevisions}
\* What a host does with the version query: it answers, it cannot be reached,
\* or its answer has no revisions to read (a release before 8.0.0.0).
VersionAnswers ==
    {[kind |-> "nodes", nodes |-> l] : l \in NodeLists}
        \cup {[kind |-> k, nodes |-> <<>>] : k \in {"MaxRetryError", "AttributeError"}}

\* list_zones: the names of the zones
ZoneLists == {<<"System">>, <<"System", "HDFS">>}
\* the default_zone a caller asks for
DefaultZones == {"System", "hdfs"}

\* get_license_license('HDFS'): status and expiration of each license
Statuses == {"Activated", "Evaluation", "Licensed", "Expired", "Unlicensed"}
Expirations == {None, "2019-12-31", "2020-01-01", "2020-01-02"}
Licenses == {[status |-> s, expiration |-> e] : s \in Statuses, e \in Expirations}
LicenseLists ==
    {<<l>> : l \in Licenses}
        \cup {<<>>, <<[status |-> "Expired", expiration |-> "2019-12-31"],
                      [status |-> "Licensed", expiration |-> None]>>}

OneFSs ==
    {[version |-> v, zones |-> z, licenses |-> l] :
        v \in [Hosts -> VersionAnswers], z \in ZoneLists, l \in LicenseLists}

\* str.lower
lower(s) ==
    CASE s = "System" -> "system"
      [] s = "HDFS" -> "hdfs"
      [] s = "Activated" -> "activated"
      [] s = "Evaluation" -> "evaluation"
      [] s = "Licensed" -> "licensed"
      [] s = "Expired" -> "expired"
      [] s = "Unlicensed" -> "unlicensed"
      [] OTHER -> s

\* datetime.strptime(expiration, '%Y-%m-%d').date(), as a day number
strptime(expiration) ==
    CASE expiration = "2019-12-31" -> 1
      [] expiration = "2020-01-01" -> 2
      [] expiration = "2020-01-02" -> 3
\* date.today()
today == strptime("2020-01-01")

Done == Returns(None)

\* BaseClient._version, decorated with accesses_onefs, at a host
_version(h) ==
    LET v == onefs.version[h] IN
    accesses_onefs([kind |-> IF v.kind = "nodes" THEN "return" ELSE v.kind,
                    value |-> v.nodes, reason |-> None,
                    body |-> Body(None, "missing", <<>>)])

\* BaseClient.revisions: the revision of each node, by node
revisions(h) == _version(h)

\* ', '.join(revisions): the items are ints, not strings
join(items) ==
    IF items = {} THEN Returns("") ELSE raise_from("TypeError", None, None)

\* BaseClient.revision
revision(h) ==
    LET nodes == revisions(h) IN
    IF nodes.how = "raise" THEN nodes
    ELSE IF Cardinality(Range(nodes.value)) # 1
        THEN IF join(Range(nodes.value)).how = "raise"
                THEN join(Range(nodes.value))
                ELSE raise_from("MixedModeError", None, None)
    ELSE Returns(CHOOSE r \in Range(nodes.value) : TRUE)

\* mutant of _refresh_sdk: the revision is kept, the binding is not looked at
\* again
_refresh_sdk_keeping(rev, sdk, rv) ==
    IF rev.how = "raise"
        THEN [exit |-> IF rev.type = "AttributeError"
                          THEN raise_from("UndeterminableVersion", None, "AttributeError")
                          ELSE rev,
              _revision |-> rv, _sdk |-> sdk]
    ELSE [exit |-> Done, _revision |-> <<rev.value>>, _sdk |-> sdk]

\* BaseClient._refresh_sdk, for what self.revision() did: how it leaves, and
\* _revision and _sdk after it
_refresh_sdk(rev, sdk, rv) ==
    IF rev.how = "raise"
        THEN [exit |-> IF rev.type = "AttributeError"
                          THEN raise_from("UndeterminableVersion", None, "AttributeError")
                          ELSE rev,
              _revision |-> rv, _sdk |-> sdk]
    ELSE [exit |-> Done, _revision |-> <<rev.value>>,
          _sdk |-> sdk_for_revision(rev.value, FALSE).value]

\* mutant of _zone: the names are compared as they are
_zone_case_sensitive(name) ==
    IF \E i \in 1..Len(onefs.zones) : onefs.zones[i] = name
        THEN Done
        ELSE raise_from("MissingZoneError", None, None)

\* BaseClient._zone
_zone(name) ==
    IF \E i \in 1..Len(onefs.zones) : lower(onefs.zones[i]) = lower(name)
        THEN Done
        ELSE raise_from("MissingZoneError", None, None)

\* BaseClient.check_zone, with has_zone: _zone returns a zone or raises
check_zone(name) == _zone(name)

\* mutant of _license_is_active: an evaluation is not taken for a license
_license_is_active_bought(license_) ==
    lower(license_.status) \in {"activated", "licensed"}

\* _license_is_active
_license_is_active(license_) ==
    lower(license_.status) \in {"activated", "evaluation", "licensed"}

\* BaseClient.check_license
check_license(name) ==
    IF Len(onefs.licenses) # 1 THEN raise_from("ValueError", None, None)
    ELSE IF _license_is_active(onefs.licenses[1]) THEN Done
    ELSE IF /\ onefs.licenses[1].expiration # None
            /\ strptime(onefs.licenses[1].expiration) < today
        THEN raise_from("ExpiredLicenseError", None, None)
    ELSE raise_from("MissingLicenseError", None, None)

\* Bound of the model: the assignments to address and host after construction.
MaxAssignments == 2

OutsideClient ==
    <<catalog, remote, script, run, pc, _next_uid, _next_gid, created_group_names,
      idx, todo, cur, calls, handed_gids, handed_uids, ret, flushes, injected, answer,
      first_end, logged, wrapper, selections, onefs, others>>

\* An assignment, as the history keeps it.
Assignment(attribute, value, exit) ==
    [attribute |-> attribute, value |-> value, how |-> exit.how, type |-> exit.type]
\* The constructor has not left yet.
Constructing == constructed = NoExit

\* BaseClient.__init__, up to the call of _refresh_sdk: the attributes without
\* setters, then the address setter, which resolves the address and sets host
__init__(cls, address, zone) ==
    /\ cpc = "new"
    /\ via' = [cls |-> cls, address |-> address, default_zone |-> zone]
    /\ default_zone' = zone
    /\ _sdk' = sdk_for_revision(ONEFS_RELEASES["8.0.0.0"], FALSE).value
    /\ _address' = None
    /\ IF gethostbyname(address) = gaierror
          THEN /\ cpc' = "failed"
               /\ constructed' = raise_from("OneFSConnectionError", None, gaierror)
               /\ UNCHANGED <<host, pending>>
          ELSE /\ cpc' = "refresh"
               /\ host' = gethostbyname(address)
               /\ pending' = address
               /\ UNCHANGED constructed
    /\ UNCHANGED <<_revision, checks, detections, assigned, license_check, OutsideClient>>

\* Client(address, username, password, default_zone)
new_Client ==
    \E address \in Addresses, zone \in DefaultZones : __init__("Client", address, zone)

\* Client.for_hdfs(address, username, password, default_zone)
new_for_hdfs ==
    \E address \in Addresses, zone \in DefaultZones : __init__("for_hdfs", address, zone)

\* client.host = h: the host setter, up to the call of _refresh_sdk
set_host ==
    /\ cpc = "ready"
    /\ Len(assigned) < MaxAssignments
    /\ \E h \in Hosts : host' = h
    /\ _address' = None
    /\ pending' = None
    /\ cpc' = "refresh"
    /\ UNCHANGED <<_revision, _sdk, default_zone, via, checks, constructed, detections,
                   assigned, license_check, OutsideClient>>

\* client.address = address: the address setter, up to the call of _refresh_sdk
set_address ==
    /\ cpc = "ready"
    /\ Len(assigned) < MaxAssignments
    /\ \E address \in Addresses :
          IF gethostbyname(address) = gaierror
              THEN /\ assigned' = Append(assigned,
                        Assignment("address", address,
                                   raise_from("OneFSConnectionError", None, gaierror)))
                   /\ UNCHANGED <<host, _address, pending, cpc>>
              ELSE /\ host' = gethostbyname(address)
                   /\ _address' = None
                   /\ pending' = address
                   /\ cpc' = "refresh"
                   /\ UNCHANGED assigned
    /\ UNCHANGED <<_revision, _sdk, default_zone, via, checks, constructed, detections,
                   license_check, OutsideClient>>

\* _refresh_sdk runs and the setters return or raise: the address setter stores
\* the address it was given after the host setter returned
refresh ==
    /\ cpc = "refresh"
    /\ \E rev \in {revision(host)} :
       \E now \in {_refresh_sdk(rev, _sdk, _revision)} :
          /\ _revision' = now._revision
          /\ _sdk' = now._sdk
          /\ _address' = IF now.exit.how = "return" THEN pending ELSE _address
          /\ detections' = Append(detections,
                [host |-> host, how |-> rev.how, type |-> rev.type,
                 found |-> IF rev.how = "return" THEN <<rev.value>> ELSE <<>>,
                 before |-> _sdk, after |-> now._sdk])
          /\ IF Constructing
                THEN /\ checks' = Append(checks, "sdk")
                     /\ cpc' = IF now.exit.how = "raise" THEN "failed" ELSE "zone"
                     /\ constructed' = IF now.exit.how = "raise" THEN now.exit ELSE NoExit
                     /\ UNCHANGED assigned
                ELSE /\ cpc' = "ready"
                     /\ assigned' = Append(assigned,
                           IF pending = None THEN Assignment("host", host, now.exit)
                           ELSE Assignment("address", pending, now.exit))
                     /\ UNCHANGED <<checks, constructed>>
    /\ pending' = None
    /\ UNCHANGED <<host, default_zone, via, license_check, OutsideClient>>

\* Client.__init__ after BaseClient.__init__: check_zone(self.zone); for_hdfs
\* goes on to the license
init_check_zone ==
    /\ cpc = "zone"
    /\ checks' = Append(checks, "zone")
    /\ \E zone \in {check_zone(default_zone)} :
          IF zone.how = "raise"
              THEN cpc' = "failed" /\ constructed' = zone
          ELSE IF via.cls = "for_hdfs"
              THEN cpc' = "license" /\ UNCHANGED constructed
          ELSE cpc' = "ready" /\ constructed' = Done
    /\ UNCHANGED <<attributes, pending, via, detections, assigned, license_check,
                   OutsideClient>>

\* Client.for_hdfs after cls(...): check_license('HDFS'), and the client is
\* returned
for_hdfs_check_license ==
    /\ cpc = "license"
    /\ checks' = Append(checks, "license")
    /\ constructed' = check_license("HDFS")
    /\ cpc' = IF check_license("HDFS").how = "raise" THEN "failed" ELSE "ready"
    /\ UNCHANGED <<attributes, pending, via, detections, assigned, license_check,
                   OutsideClient>>

\* client.check_license('HDFS')
call_check_license ==
    /\ cpc = "ready"
    /\ license_check = NoExit
    /\ license_check' = check_license("HDFS")
    /\ UNCHANGED <<attributes, pending, cpc, via, checks, constructed, detections,
                   assigned, OutsideClient>>

ClientInit ==
    /\ InitNone
    /\ order = Unordered
    /\ FreshProcess
    /\ onefs \in OneFSs

ClientNext ==
    \/ new_Client
    \/ new_for_hdfs
    \/ set_host
    \/ set_address
    \/ refresh
    \/ init_check_zone
    \/ for_hdfs_check_license
    \/ call_check_license

ClientSpec == ClientInit /\ [][ClientNext]_vars

----------------------------------------------------------------------------
\* directories.Creator.create_directories: the directories of a catalog are
\* made, one after the other, in the namespace of a zone.  A path is the
\* sequence of its characters.  One behaviour is a run and, when it returned, a
\* second run on the namespace it left.

\* posixpath.sep
sep == "/"
\* the top-level root: hdfs_root == '/ifs'
ifs == <<"/", "i", "f", "s">>

RECURSIVE rstrip(_)
\* str.rstrip(posixpath.sep)
rstrip(s) == IF s # <<>> /\ s[Len(s)] = sep THEN rstrip(SubSeq(s, 1, Len(s) - 1)) ELSE s

RECURSIVE lstrip(_)
\* str.lstrip(posixpath.sep)
lstrip(s) == IF s # <<>> /\ s[1] = sep THEN lstrip(Tail(s)) ELSE s

\* str.startswith(prefix)
startswith(s, prefix) == Len(prefix) <= Len(s) /\ SubSeq(s, 1, Len(prefix)) = prefix

\* posixpath.join(a, b)
posixpath_join(a, b) ==
    IF startswith(b, <<sep>>) THEN b
    ELSE IF a = <<>> \/ a[Len(a)] = sep THEN a \o b
    ELSE a \o <<sep>> \o b

RECURSIVE Components(_)
\* The directory a path names in the namespace: its components, in order.
Components(s) ==
    LET t == lstrip(s) IN
    IF t = <<>> THEN <<>>
    ELSE LET n == Min({i \in 1..Len(t) : t[i] = sep} \cup {Len(t) + 1}) IN
         <<SubSeq(t, 1, n - 1)>> \o Components(SubSeq(t, n, Len(t)))

RECURSIVE Octal(_)
\* an integer written in octal, as in 0o1777
Octal(digits) ==
    IF digits = <<>> THEN 0
    ELSE 8 * Octal(SubSeq(digits, 1, Len(digits) - 1)) + digits[Len(digits)]

RECURSIVE format_o(_)
\* '{:o}'.format(mode)
format_o(mode) ==
    IF mode < 8 THEN <<mode>> ELSE Append(format_o(mode \div 8), mode % 8)

\* HDFSDirectory(path, owner, group, mode)
HDFSDirectory(path, owner, group, mode) ==
    [path |-> path, owner |-> owner, group |-> group, mode |-> mode]

\* The catalogs: the first directories of cdh_directories, with and without
\* the directory below /tmp.
DirectoryCatalogs ==
    {<<HDFSDirectory(<<"/">>, "hdfs", "hadoop", Octal(<<7, 5, 5>>)),
       HDFSDirectory(<<"/", "t", "m", "p">>, "hdfs", "supergroup", Octal(<<1, 7, 7, 7>>))>>,
     <<HDFSDirectory(<<"/", "t", "m", "p">>, "hdfs", "supergroup", Octal(<<1, 7, 7, 7>>)),
       HDFSDirectory(<<"/", "t", "m", "p", "/", "h", "i", "v", "e">>, "hive",
                     "supergroup", Octal(<<7, 7, 7>>))>>}

\* The paths of the zones: the System zone's /ifs, and /ifs/z as the API may
\* report it.
ZonePaths == {ifs, ifs \o <<"/", "z">>, ifs \o <<"/", "z", "/">>}
\* The HDFS roots: /ifs, /ifs/, /ifs/z, /ifs/z/h, /ifs/z/h/, /ifs/zh, /ifs/h
RootDirectories ==
    {ifs, ifs \o <<"/">>, ifs \o <<"/", "z">>, ifs \o <<"/", "z", "/", "h">>,
     ifs \o <<"/", "z", "/", "h", "/">>, ifs \o <<"/", "z", "h">>, ifs \o <<"/", "h">>}

\* create_directories: zone_root, hdfs_root, zone_hdfs
zone_root == rstrip(zone_settings.path)
\* mutant of hdfs_root: the separators at the end are kept
hdfs_root_unstripped == hdfs_settings.root_directory
hdfs_root == rstrip(hdfs_settings.root_directory)
zone_hdfs == SubSeq(hdfs_root, Len(zone_root) + 1, Len(hdfs_root))

\* path = posixpath.join(zone_hdfs, directory.path.lstrip(posixpath.sep))
zone_relative(directory) == posixpath_join(zone_hdfs, lstrip(directory.path))

\* Client._zone_real_path
_zone_real_path(path) == posixpath_join(zone_settings.path, lstrip(path))

\* The attributes of a directory nobody provisioned.
Unprovisioned == [mode |-> <<7, 0, 0>>, owner |-> 0, group |-> 0]
\* The directories above a directory, and the directory.
Ancestors(c) == {SubSeq(c, 1, n) : n \in 1..Len(c)}
\* The directories a run of the catalog may touch.
Targets == {Components(_zone_real_path(zone_relative(directories[i]))) : i \in DOMAIN directories}

\* NamespaceApi.create_directory (recursive=False, overwrite=False), behind
\* Client.mkdir's refusal to touch the ifs namespace
create_directory(real_path) ==
    IF sep \notin Range(lstrip(rstrip(real_path)))
    THEN {[kind |-> "OneFSValueError", id |-> 0, name |-> ""]}
    ELSE Answers({[kind |-> "dir_path_already_exists", id |-> 0, name |-> ""] :
                     x \in {Components(real_path)} \cap DOMAIN namespace}
                 \cup {[kind |-> "parent_not_found", id |-> 0, name |-> ""] :
                     x \in Ancestors(Components(real_path))
                           \ (DOMAIN namespace \cup {Components(real_path)})})

\* NamespaceApi.set_acl, after the lookups of Client.chown
set_acl(real_path, owner, group) ==
    Answers({[kind |-> "path_not_found", id |-> 0, name |-> ""] :
                x \in {Components(real_path)} \ DOMAIN namespace}
            \cup {[kind |-> "user_not_found", id |-> 0, name |-> owner] :
                x \in ({owner} \ {None}) \ DOMAIN auth_users}
            \cup {[kind |-> "group_not_found", id |-> 0, name |-> group] :
                x \in ({group} \ {None}) \ DOMAIN auth_groups})

\* mutant of dir_path_already_exists_error: the message never matches
dir_path_already_exists_error_never(exc) == FALSE
\* APIError.dir_path_already_exists_error
dir_path_already_exists_error(exc) == exc.kind = "dir_path_already_exists"

\* for directory in directories
DirAt(i) ==
    IF i <= Len(directories) THEN [pc |-> "mkdir", idx |-> i] ELSE [pc |-> "done", idx |-> 0]

\* mutant of AfterMkdir: a directory that exists already is left as it is
AfterMkdir_skipping(i, exc) ==
    IF exc = Ok THEN [pc |-> "chmod", idx |-> i] ELSE DirAt(i + 1)
\* create_directories: after mkdir returned or reported that the directory exists
AfterMkdir(i, exc) == [pc |-> "chmod", idx |-> i]

\* a call of the client, as the history keeps it
DirCall(op, i, mode, owner, group, exc) ==
    [op |-> op, dir |-> i, path |-> zone_relative(directories[i]), mode |-> mode,
     owner |-> owner, group |-> group, exc |-> exc]

Issue(call) ==
    /\ calls' = Append(calls, call)
    /\ answer' = call.exc
    /\ snapshots' = [snapshots EXCEPT !.before = namespace]

DirGoto(p) == pc' = p.pc /\ idx' = p.idx

\* mutant of DirRaise: the failure is logged and the run goes on
DirRaise_continuing(exc) ==
    /\ DirGoto(DirAt(idx + 1))
    /\ injected' = (injected \/ exc = Unrecognised)
    /\ UNCHANGED <<error, namespace>>

\* an exception leaves create_directories
DirRaise(exc) ==
    /\ pc' = "raised"
    /\ error' = raise_from(exc.kind, None, None)
    /\ injected' = (injected \/ exc = Unrecognised)
    /\ UNCHANGED <<idx, namespace>>

DirUnchanged ==
    UNCHANGED <<catalog, remote, script, _next_uid, _next_gid, created_group_names, todo,
                cur, handed_gids, handed_uids, ret, flushes, first_end, logged, wrapper,
                selections, client, onefs_zone, flushed, zone_settings, hdfs_settings,
                directories, concurrent, fixture>>

\* create_directories, up to the loop
create_directories ==
    /\ pc = "idle"
    /\ IF hdfs_root = ifs
         THEN /\ pc' = "raised"
              /\ error' = raise_from("HDFSRootDirectoryError", None, None)
              /\ UNCHANGED idx
       ELSE IF ~startswith(hdfs_root, zone_root)
         THEN /\ pc' = "raised"
              /\ error' = raise_from("AssertionError", None, None)
              /\ UNCHANGED idx
       ELSE /\ DirGoto(DirAt(1))
            /\ UNCHANGED error
    /\ UNCHANGED <<run, calls, answer, injected, namespace, snapshots>>
    /\ DirUnchanged

\* create_directories on the namespace a run that returned has left
create_directories_again ==
    /\ run = "first" /\ pc = "done" /\ directories # <<>>
    /\ run' = "second"
    /\ calls' = <<>>
    /\ snapshots' = [snapshots EXCEPT !.first = namespace]
    /\ DirGoto(DirAt(1))
    /\ UNCHANGED <<answer, injected, namespace, error>>
    /\ DirUnchanged

\* (mkdir or self.onefs.mkdir)(path, directory.mode, zone=self.onefs_zone)
mkdir ==
    /\ pc = "mkdir"
    /\ \E directory \in {directories[idx]} :
       \E real_path \in {_zone_real_path(zone_relative(directory))} :
       \E exc \in create_directory(real_path) :
          /\ Issue(DirCall("mkdir", idx, directory.mode, None, None, exc))
          /\ IF exc = Ok
                THEN /\ namespace' = namespace @@
                            (Components(real_path) :>
                                [Unprovisioned EXCEPT !.mode = format_o(directory.mode)])
                     /\ DirGoto(AfterMkdir(idx, exc))
                     /\ UNCHANGED <<error, injected>>
             ELSE IF dir_path_already_exists_error(exc)
                THEN /\ DirGoto(AfterMkdir(idx, exc))
                     /\ UNCHANGED <<namespace, error, injected>>
             ELSE DirRaise(exc)
    /\ UNCHANGED run
    /\ DirUnchanged

\* (chmod or self.onefs.chmod)(path, directory.mode, zone=self.onefs_zone)
chmod ==
    /\ pc = "chmod"
    /\ \E directory \in {directories[idx]} :
       \E real_path \in {_zone_real_path(zone_relative(directory))} :
       \E exc \in set_acl(real_path, None, None) :
          /\ Issue(DirCall("chmod", idx, directory.mode, None, None, exc))
          /\ IF exc = Ok
                THEN /\ namespace' = [namespace EXCEPT
                            ![Components(real_path)].mode = format_o(directory.mode)]
                     /\ pc' = "chown"
                     /\ UNCHANGED <<idx, error, injected>>
             ELSE DirRaise(exc)
    /\ UNCHANGED run
    /\ DirUnchanged

\* (chown or self.onefs.chown)(path, owner=directory.owner,
\*                             group=directory.group, zone=self.onefs_zone)
chown ==
    /\ pc = "chown"
    /\ \E directory \in {directories[idx]} :
       \E real_path \in {_zone_real_path(zone_relative(directory))} :
       \E exc \in set_acl(real_path, directory.owner, directory.group) :
          /\ Issue(DirCall("chown", idx, 0, directory.owner, directory.group, exc))
          /\ IF exc = Ok
                THEN /\ namespace' = [namespace EXCEPT
                            ![Components(real_path)].owner = uid_of_user(directory.owner),
                            ![Components(real_path)].group = gid_of_group(directory.group)]
                     /\ DirGoto(DirAt(idx + 1))
                     /\ UNCHANGED <<error, injected>>
             ELSE DirRaise(exc)
    /\ UNCHANGED run
    /\ DirUnchanged

\* The users and groups of the zone: those the directories name, with or
\* without the user hdfs.
DirGroups == [n \in {"hadoop", "supergroup"} |-> IF n = "hadoop" THEN 1025 ELSE 1026]
DirUsers(S) == [n \in S |-> [uid |-> IF n = "hdfs" THEN 1025 ELSE 1026, gid |-> n]]

\* A catalog, on every zone: its path, its HDFS root, and which of the HDFS root
\* and the catalog's directories it has.
DirInit ==
    /\ identities = [groups |-> {}, users |-> <<>>, proxy_users |-> <<>>]
    /\ script_path = FALSE
    /\ order = Unordered
    /\ auth_groups = DirGroups
    /\ auth_users \in {DirUsers(S) : S \in {{"hdfs", "hive"}, {"hive"}}}
    /\ group_members = {}
    /\ hdfs_proxyusers = <<>>
    /\ FreshRun
    /\ NoConcurrent
    /\ NoFixture
    /\ onefs = NoOneFS
    /\ default_zone = None
    /\ onefs_zone = "zone1"
    /\ error = NoExit
    /\ directories \in DirectoryCatalogs
    /\ zone_settings \in {[path |-> z] : z \in ZonePaths}
    /\ hdfs_settings \in {[root_directory |-> h] : h \in RootDirectories}
    /\ \E S \in SUBSET (Targets \cup {Components(hdfs_root)}) :
          /\ \A c \in S : Ancestors(c) \subseteq
                            (S \cup Ancestors(Components(zone_settings.path)))
          /\ namespace = [c \in Ancestors(Components(zone_settings.path)) \cup S
                            |-> Unprovisioned]
    /\ snapshots = [start |-> namespace, before |-> namespace, first |-> <<>>]

DirNext ==
    \/ create_directories
    \/ create_directories_again
    \/ mkdir
    \/ chmod
    \/ chown

DirSpec == DirInit /\ [][DirNext]_vars

----------------------------------------------------------------------------
\* The catalogs of the two distributions, and the fixture of the tests that
\* collects the users and groups iterate_identities creates for one of them
\* (users_groups_for_directories).

\* cdh_identities(zone); identities['users'] in insertion order
cdh_identities(zone) ==
    LET smoke_user == <<"cloudera-scm", "user">>
        users_ == <<
            [name |-> "accumulo", pgroup |-> "accumulo", sgroups |-> {}],
            [name |-> "anonymous", pgroup |-> "anonymous", sgroups |-> {}],
            [name |-> "apache", pgroup |-> "apache", sgroups |-> {}],
            [name |-> "cloudera-scm", pgroup |-> "cloudera-scm", sgroups |-> {}],
            [name |-> "cmjobuser", pgroup |-> "cmjobuser", sgroups |-> {}],
            [name |-> "flume", pgroup |-> "flume", sgroups |-> {}],
            [name |-> "hbase", pgroup |-> "hbase", sgroups |-> {"hadoop", "supergroup"}],
            [name |-> "hdfs", pgroup |-> "hdfs", sgroups |-> {"hadoop", "supergroup"}],
            [name |-> "hive", pgroup |-> "hive", sgroups |-> {}],
            [name |-> "HTTP", pgroup |-> "HTTP", sgroups |-> {"hadoop", "supergroup"}],
            [name |-> "httpfs", pgroup |-> "httpfs", sgroups |-> {}],
            [name |-> "hue", pgroup |-> "hue", sgroups |-> {}],
            [name |-> "impala", pgroup |-> "impala", sgroups |-> {"hive"}],
            [name |-> "kafka", pgroup |-> "kafka", sgroups |-> {}],
            [name |-> "keytrustee", pgroup |-> "keytrustee", sgroups |-> {}],
            [name |-> "kms", pgroup |-> "kms", sgroups |-> {}],
            [name |-> "kudu", pgroup |-> "kudu", sgroups |-> {}],
            [name |-> "llama", pgroup |-> "llama", sgroups |-> {}],
            [name |-> "mapred", pgroup |-> "mapred", sgroups |-> {"hadoop", "supergroup"}],
            [name |-> "oozie", pgroup |-> "oozie", sgroups |-> {}],
            [name |-> "sentry", pgroup |-> "sentry", sgroups |-> {}],
            [name |-> "solr", pgroup |-> "solr", sgroups |-> {}],
            [name |-> "spark", pgroup |-> "spark", sgroups |-> {}],
            [name |-> "sqoop", pgroup |-> "sqoop", sgroups |-> {"sqoop2"}],
            [name |-> "sqoop2", pgroup |-> "sqoop2", sgroups |-> {"sqoop"}],
            [name |-> "yarn", pgroup |-> "yarn", sgroups |-> {"hadoop", "supergroup"}],
            [name |-> "zookeeper", pgroup |-> "zookeeper", sgroups |-> {}]>>
        proxy_users_ == <<
            [name |-> "flume", members |-> {smoke_user, <<"hadoop", "group">>}],
            [name |-> "hive", members |-> {smoke_user, <<"hadoop", "group">>}],
            [name |-> "HTTP", members |-> {smoke_user}],
            [name |-> "hue", members |-> {smoke_user, <<"hadoop", "group">>}],
            [name |-> "impala", members |-> {smoke_user, <<"hadoop", "group">>}],
            [name |-> "mapred", members |-> {smoke_user, <<"hadoop", "group">>}],
            [name |-> "oozie", members |-> {smoke_user, <<"hadoop", "group">>}]>>
    IN
    [groups |-> {},
     users |-> IF lower(zone) # "system"
               THEN Append(users_, [name |-> "admin", pgroup |-> "admin", sgroups |-> {}])
               ELSE users_,
     proxy_users |-> proxy_users_]

\* hdp_identities(zone)
hdp_identities(zone) ==
    LET smoke_user == <<"ambari-qa", "user">>
        users_ == <<
            [name |-> "accumulo", pgroup |-> "accumulo", sgroups |-> {"hadoop"}],
            [name |-> "activity_analyzer", pgroup |-> "activity_analyzer", sgroups |-> {"hadoop"}],
            [name |-> "activity_explorer", pgroup |-> "activity_explorer", sgroups |-> {"hadoop"}],
            [name |-> "ambari-qa", pgroup |-> "ambari-qa", sgroups |-> {"hadoop"}],
            [name |-> "ambari-server", pgroup |-> "ambari-server", sgroups |-> {"hadoop"}],
            [name |-> "ams", pgroup |-> "ams", sgroups |-> {"hadoop"}],
            [name |-> "anonymous", pgroup |-> "anonymous", sgroups |-> {}],
            [name |-> "atlas", pgroup |-> "atlas", sgroups |-> {"hadoop"}],
            [name |-> "druid", pgroup |-> "druid", sgroups |-> {"hadoop"}],
            [name |-> "falcon", pgroup |-> "falcon", sgroups |-> {"hadoop"}],
            [name |-> "flume", pgroup |-> "flume", sgroups |-> {"hadoop"}],
            [name |-> "gpadmin", pgroup |-> "gpadmin", sgroups |-> {"hadoop"}],
            [name |-> "hadoopqa", pgroup |-> "hadoopqa", sgroups |-> {"hadoop"}],
            [name |-> "hbase", pgroup |-> "hbase", sgroups |-> {"hadoop"}],
            [name |-> "hcat", pgroup |-> "hcat", sgroups |-> {"hadoop"}],
            [name |-> "hdfs", pgroup |-> "hdfs", sgroups |-> {"hadoop"}],
            [name |-> "hive", pgroup |-> "hive", sgroups |-> {"hadoop"}],
            [name |-> "HTTP", pgroup |-> "HTTP", sgroups |-> {"hadoop"}],
            [name |-> "hue", pgroup |-> "hue", sgroups |-> {"hadoop"}],
            [name |-> "infra-solr", pgroup |-> "infra-solr", sgroups |-> {"hadoop"}],
            [name |-> "kafka", pgroup |-> "kafka", sgroups |-> {"hadoop"}],
            [name |-> "keyadmin", pgroup |-> "keyadmin", sgroups |-> {"hadoop"}],
            [name |-> "kms", pgroup |-> "kms", sgroups |-> {"hadoop"}],
            [name |-> "knox", pgroup |-> "knox", sgroups |-> {"hadoop"}],
            [name |-> "livy", pgroup |-> "livy", sgroups |-> {"hadoop"}],
            [name |-> "logsearch", pgroup |-> "logsearch", sgroups |-> {"hadoop"}],
            [name |-> "mahout", pgroup |-> "mahout", sgroups |-> {"hadoop"}],
            [name |-> "mapred", pgroup |-> "mapred", sgroups |-> {"hadoop"}],
            [name |-> "oozie", pgroup |-> "oozie", sgroups |-> {"hadoop"}],
            [name |-> "ranger", pgroup |-> "ranger", sgroups |-> {"hadoop"}],
            [name |-> "rangerlookup", pgroup |-> "rangerlookup", sgroups |-> {"hadoop"}],
            [name |-> "spark", pgroup |-> "spark", sgroups |-> {"hadoop"}],
            [name |-> "sqoop", pgroup |-> "sqoop", sgroups |-> {"hadoop"}],
            [name |-> "storm", pgroup |-> "storm", sgroups |-> {"hadoop"}],
            [name |-> "tez", pgroup |-> "tez", sgroups |-> {"hadoop"}],
            [name |-> "tracer", pgroup |-> "tracer", sgroups |-> {"hadoop"}],
            [name |-> "yarn", pgroup |-> "yarn", sgroups |-> {"hadoop"}],
            [name |-> "yarn-ats", pgroup |-> "yarn-ats", sgroups |-> {"hadoop"}],
            [name |-> "yarn-ats-hbase", pgroup |-> "yarn-ats-hbase", sgroups |-> {"hadoop"}],
            [name |-> "zeppelin", pgroup |-> "zeppelin", sgroups |-> {"hadoop"}],
            [name |-> "zookeeper", pgroup |-> "zookeeper", sgroups |-> {"hadoop"}]>>
        proxy_users_ == <<
            [name |-> "ambari-server", members |-> {smoke_user}],
            [name |-> "flume", members |-> {smoke_user, <<"hadoop", "group">>}],
            [name |-> "hbase", members |-> {smoke_user, <<"hadoop", "group">>}],
            [name |-> "hcat", members |-> {smoke_user, <<"hadoop", "group">>}],
            [name |-> "hive", members |-> {smoke_user, <<"hadoop", "group">>}],
            [name |-> "HTTP", members |-> {smoke_user}],
            [name |-> "knox", members |-> {smoke_user}],
            [name |-> "livy", members |-> {smoke_user, <<"hadoop", "group">>}],
            [name |-> "oozie", members |-> {smoke_user, <<"hadoop", "group">>}],
            [name |-> "yarn", members |-> {smoke_user, <<"hadoop", "group">>}]>>
    IN
    [groups |-> {},
     users |-> IF lower(zone) # "system"
               THEN Append(users_, [name |-> "admin", pgroup |-> "admin", sgroups |-> {}])
               ELSE users_,
     proxy_users |-> proxy_users_]

\* cdh_directories()
cdh_directories ==
    <<
      HDFSDirectory(<<"/">>, "hdfs", "hadoop", Octal(<<7, 5, 5>>)),
      HDFSDirectory(<<"/", "h", "b", "a", "s", "e">>, "hbase", "hbase", Octal(<<7, 5, 5>>)),
      HDFSDirectory(<<"/", "s", "o", "l", "r">>, "solr", "solr", Octal(<<7, 7, 5>>)),
      HDFSDirectory(<<"/", "t", "m", "p">>, "hdfs", "supergroup", Octal(<<1, 7, 7, 7>>)),
      HDFSDirectory(<<"/", "t", "m", "p", "/", "h", "i", "v", "e">>, "hive", "supergroup", Octal(<<7, 7, 7>>)),
      HDFSDirectory(<<"/", "t", "m", "p", "/", "l", "o", "g", "s">>, "mapred", "hadoop", Octal(<<1, 7, 7, 7>>)),
      HDFSDirectory(<<"/", "u", "s", "e", "r">>, "hdfs", "supergroup", Octal(<<7, 5, 5>>)),
      HDFSDirectory(<<"/", "u", "s", "e", "r", "/", "f", "l", "u", "m", "e">>, "flume", "flume", Octal(<<7, 7, 5>>)),
      HDFSDirectory(<<"/", "u", "s", "e", "r", "/", "h", "d", "f", "s">>, "hdfs", "hdfs", Octal(<<7, 5, 5>>)),
      HDFSDirectory(<<"/", "u", "s", "e", "r", "/", "h", "i", "s", "t", "o", "r", "y">>, "mapred", "hadoop", Octal(<<7, 7, 7>>)),
      HDFSDirectory(<<"/", "u", "s", "e", "r", "/", "h", "i", "v", "e">>, "hive", "hive", Octal(<<7, 7, 5>>)),
      HDFSDirectory(<<"/", "u", "s", "e", "r", "/", "h", "i", "v", "e", "/", "w", "a", "r", "e", "h", "o", "u", "s", "e">>, "hive", "hive", Octal(<<1, 7, 7, 7>>)),
      HDFSDirectory(<<"/", "u", "s", "e", "r", "/", "h", "u", "e">>, "hue", "hue", Octal(<<7, 5, 5>>)),
      HDFSDirectory(<<"/", "u", "s", "e", "r", "/", "h", "u", "e", "/", ".", "c", "l", "o", "u", "d", "e", "r", "a", "_", "m", "a", "n", "a", "g", "e", "r", "_", "h", "i", "v", "e", "_", "m", "e", "t", "a", "s", "t", "o", "r", "e", "_", "c", "a", "n", "a", "r", "y">>, "hue", "hue", Octal(<<7, 7, 7>>)),
      HDFSDirectory(<<"/", "u", "s", "e", "r", "/", "i", "m", "p", "a", "l", "a">>, "impala", "impala", Octal(<<7, 7, 5>>)),
      HDFSDirectory(<<"/", "u", "s", "e", "r", "/", "o", "o", "z", "i", "e">>, "oozie", "oozie", Octal(<<7, 7, 5>>)),
      HDFSDirectory(<<"/", "u", "s", "e", "r", "/", "s", "p", "a", "r", "k">>, "spark", "spark", Octal(<<7, 5, 1>>)),
      HDFSDirectory(<<"/", "u", "s", "e", "r", "/", "s", "p", "a", "r", "k", "/", "a", "p", "p", "l", "i", "c", "a", "t", "i", "o", "n", "H", "i", "s", "t", "o", "r", "y">>, "spark", "spark", Octal(<<1, 7, 7, 7>>)),
      HDFSDirectory(<<"/", "u", "s", "e", "r", "/", "s", "q", "o", "o", "p", "2">>, "sqoop2", "sqoop", Octal(<<7, 7, 5>>)),
      HDFSDirectory(<<"/", "u", "s", "e", "r", "/", "y", "a", "r", "n">>, "yarn", "yarn", Octal(<<7, 5, 5>>))>>

\* hdp_directories()
hdp_directories ==
    <<
      HDFSDirectory(<<"/">>, "hdfs", "hadoop", Octal(<<7, 5, 5>>)),
      HDFSDirectory(<<"/", "a", "p", "p", "-", "l", "o", "g", "s">>, "yarn", "hadoop", Octal(<<1, 7, 7, 7>>)),
      HDFSDirectory(<<"/", "a", "p", "p", "-", "l", "o", "g", "s", "/", "a", "m", "b", "a", "r", "i", "-", "q", "a">>, "ambari-qa", "hadoop", Octal(<<7, 7, 0>>)),
      HDFSDirectory(<<"/", "a", "p", "p", "-", "l", "o", "g", "s", "/", "a", "m", "b", "a", "r", "i", "-", "q", "a", "/", "l", "o", "g", "s">>, "ambari-qa", "hadoop", Octal(<<7, 7, 0>>)),
      HDFSDirectory(<<"/", "a", "p", "p", "s">>, "hdfs", "hadoop", Octal(<<7, 5, 5>>)),
      HDFSDirectory(<<"/", "a", "p", "p", "s", "/", "a", "c", "c", "u", "m", "u", "l", "o">>, "accumulo", "hadoop", Octal(<<7, 5, 0>>)),
      HDFSDirectory(<<"/", "a", "p", "p", "s", "/", "f", "a", "l", "c", "o", "n">>, "falcon", "hdfs", Octal(<<7, 7, 7>>)),
      HDFSDirectory(<<"/", "a", "p", "p", "s", "/", "h", "b", "a", "s", "e">>, "hdfs", "hadoop", Octal(<<7, 5, 5>>)),
      HDFSDirectory(<<"/", "a", "p", "p", "s", "/", "h", "b", "a", "s", "e", "/", "d", "a", "t", "a">>, "hbase", "hadoop", Octal(<<7, 7, 5>>)),
      HDFSDirectory(<<"/", "a", "p", "p", "s", "/", "h", "b", "a", "s", "e", "/", "s", "t", "a", "g", "i", "n", "g">>, "hbase", "hadoop", Octal(<<7, 1, 1>>)),
      HDFSDirectory(<<"/", "a", "p", "p", "s", "/", "h", "i", "v", "e">>, "hdfs", "hdfs", Octal(<<7, 5, 5>>)),
      HDFSDirectory(<<"/", "a", "p", "p", "s", "/", "h", "i", "v", "e", "/", "w", "a", "r", "e", "h", "o", "u", "s", "e">>, "hive", "hdfs", Octal(<<7, 7, 7>>)),
      HDFSDirectory(<<"/", "a", "p", "p", "s", "/", "t", "e", "z">>, "tez", "hdfs", Octal(<<7, 5, 5>>)),
      HDFSDirectory(<<"/", "a", "p", "p", "s", "/", "w", "e", "b", "h", "c", "a", "t">>, "hcat", "hdfs", Octal(<<7, 5, 5>>)),
      HDFSDirectory(<<"/", "a", "t", "s">>, "yarn", "hdfs", Octal(<<7, 5, 5>>)),
      HDFSDirectory(<<"/", "a", "t", "s", "/", "d", "o", "n", "e">>, "yarn", "hdfs", Octal(<<7, 7, 5>>)),
      HDFSDirectory(<<"/", "a", "t", "s", "v", "2">>, "yarn-ats", "hadoop", Octal(<<7, 5, 5>>)),
      HDFSDirectory(<<"/", "m", "a", "p", "r", "e", "d">>, "mapred", "hadoop", Octal(<<7, 5, 5>>)),
      HDFSDirectory(<<"/", "m", "a", "p", "r", "e", "d", "/", "s", "y", "s", "t", "e", "m">>, "mapred", "hadoop", Octal(<<7, 5, 5>>)),
      HDFSDirectory(<<"/", "s", "y", "s", "t", "e", "m">>, "yarn", "hadoop", Octal(<<7, 5, 5>>)),
      HDFSDirectory(<<"/", "s", "y", "s", "t", "e", "m", "/", "y", "a", "r", "n">>, "yarn", "hadoop", Octal(<<7, 5, 5>>)),
      HDFSDirectory(<<"/", "s", "y", "s", "t", "e", "m", "/", "y", "a", "r", "n", "/", "n", "o", "d", "e", "-", "l", "a", "b", "e", "l", "s">>, "yarn", "hadoop", Octal(<<7, 0, 0>>)),
      HDFSDirectory(<<"/", "t", "m", "p">>, "hdfs", "hdfs", Octal(<<1, 7, 7, 7>>)),
      HDFSDirectory(<<"/", "t", "m", "p", "/", "h", "i", "v", "e">>, "ambari-qa", "hdfs", Octal(<<7, 7, 7>>)),
      HDFSDirectory(<<"/", "u", "s", "e", "r">>, "hdfs", "hdfs", Octal(<<7, 5, 5>>)),
      HDFSDirectory(<<"/", "u", "s", "e", "r", "/", "a", "m", "b", "a", "r", "i", "-", "q", "a">>, "ambari-qa", "hdfs", Octal(<<7, 7, 0>>)),
      HDFSDirectory(<<"/", "u", "s", "e", "r", "/", "h", "c", "a", "t">>, "hcat", "hdfs", Octal(<<7, 5, 5>>)),
      HDFSDirectory(<<"/", "u", "s", "e", "r", "/", "h", "d", "f", "s">>, "hdfs", "hdfs", Octal(<<7, 5, 5>>)),
      HDFSDirectory(<<"/", "u", "s", "e", "r", "/", "h", "i", "v", "e">>, "hive", "hdfs", Octal(<<7, 0, 0>>)),
      HDFSDirectory(<<"/", "u", "s", "e", "r", "/", "h", "u", "e">>, "hue", "hue", Octal(<<7, 5, 5>>)),
      HDFSDirectory(<<"/", "u", "s", "e", "r", "/", "o", "o", "z", "i", "e">>, "oozie", "hdfs", Octal(<<7, 7, 5>>)),
      HDFSDirectory(<<"/", "u", "s", "e", "r", "/", "y", "a", "r", "n">>, "yarn", "hdfs", Octal(<<7, 5, 5>>))>>

\* the sets iterate_identities iterates for the catalogs of the distributions
FixtureSites ==
    {<<"groups", 0>>} \cup
    {<<p, i>> : p \in {"user_groups", "add_user_to_group"},
                i \in 1..Len(hdp_identities("zone1").users)}

\* the fixture is set up: iterate_identities is called on the identities of
\* the distribution for the zone of the client
users_groups_for_directories ==
    /\ param # None /\ pc = "idle"
    /\ users' = {}
    /\ groups' = {}
    /\ created_group_names' = {}
    /\ Goto(GroupsLoop(identities.groups))
    /\ UNCHANGED <<catalog, remote, script, run, _next_uid, _next_gid, cur, calls,
                   handed_gids, handed_uids, ret, flushes, injected, answer, first_end,
                   logged, wrapper, selections, client, onefs_zone, flushed, tree,
                   concurrent, param>>

\* what a callback of the fixture leaves alone
Collects ==
    UNCHANGED <<catalog, remote, script, run, _next_uid, _next_gid, cur, calls,
                handed_gids, handed_uids, ret, flushes, injected, answer, first_end,
                logged, wrapper, selections, client, onefs_zone, flushed, tree,
                concurrent, param>>

\* create_group=lambda group_name: groups.add(group_name)
groups_add ==
    /\ param # None /\ pc \in {"groups", "user_groups"}
    /\ \E group_name \in Pick(todo) \ created_group_names :
          /\ groups' = groups \cup {group_name}
          /\ created_group_names' = created_group_names \cup {group_name}
          /\ Goto(GroupLoopNext(todo \ {group_name}))
    /\ UNCHANGED users
    /\ Collects

\* create_user=lambda user_name, _: users.add(user_name)
users_add ==
    /\ param # None /\ pc = "create_user"
    /\ users' = users \cup {identities.users[idx].name}
    /\ Goto(AfterCreateUser(idx))
    /\ UNCHANGED <<groups, created_group_names>>
    /\ Collects

\* add_user_to_group=_pass, create_proxy_user=_pass
_pass ==
    /\ param # None /\ pc \in {"add_user_to_group", "proxy_users"}
    /\ IF pc = "add_user_to_group"
         THEN \E group_name \in Pick(todo) : Goto(AddLoop(idx, todo \ {group_name}))
         ELSE Goto(ProxyAt(idx + 1))
    /\ UNCHANGED <<users, groups, created_group_names>>
    /\ Collects

\* iterate_identities has returned: the fixture returns the sets and the
\* directories of the distribution
fixture_returns ==
    /\ param # None /\ pc = "flush"
    /\ pc' = "done"
    /\ directories' = (IF param = "cdh" THEN cdh_directories ELSE hdp_directories)
    /\ UNCHANGED <<catalog, remote, script, run, _next_uid, _next_gid,
                   created_group_names, idx, todo, cur, calls, handed_gids, handed_uids,
                   ret, flushes, injected, answer, first_end, logged, wrapper,
                   selections, client, onefs_zone, flushed, zone_settings,
                   hdfs_settings, namespace, snapshots, error, concurrent, fixture>>

\* @pytest.fixture(params=['cdh', 'hdp']), with a client of either zone
FixtureInit ==
    /\ param \in {"cdh", "hdp"}
    /\ default_zone \in Zones
    /\ identities = (IF param = "cdh" THEN cdh_identities(default_zone)
                                     ELSE hdp_identities(default_zone))
    /\ script_path = FALSE
    /\ order = [s \in FixtureSites |-> <<>>]
    /\ auth_groups = BaseGroups
    /\ auth_users = <<>>
    /\ group_members = {}
    /\ hdfs_proxyusers = <<>>
    /\ FreshRun
    /\ NoTree
    /\ NoConcurrent
    /\ onefs = NoOneFS
    /\ onefs_zone = "zone1"
    /\ users = {}
    /\ groups = {}

FixtureNext ==
    \/ users_groups_for_directories
    \/ skip_group
    \/ groups_add
    \/ users_add
    \/ _pass
    \/ fixture_returns

FixtureSpec == FixtureInit /\ [][FixtureNext]_vars

----------------------------------------------------------------------------
\* Two runs of create_identities at once: two processes, each with a Creator
\* of its own (the same catalog, the same start IDs, the same script path),
\* against one zone and one script file.  A step of a run is one remote call
\* or one access to the file; the steps of the two runs interleave in any way.
\* The zone answers every call at once and meets no failure of its own.

Procs == {1, 2}

NoLine == Line("", 0, 0, "", "")
NoResume == [pc |-> "idle", idx |-> 0, todo |-> {}]

\* Creator.__init__
NewCreator ==
    [pc |-> "idle", idx |-> 0, todo |-> {}, cur |-> NoCur,
     _next_uid |-> default_start_uid, _next_gid |-> default_start_gid,
     created_group_names |-> {},
     line |-> NoLine,       \* the line the run is about to append
     resume |-> NoResume,   \* where iterate_identities goes on after the file
     saw |-> FALSE,         \* what os.path.exists returned last
     absent |-> FALSE,      \* history: the check of create_identities found no file
     overwrote |-> FALSE,   \* history: the preamble was written over a file
     appended |-> <<>>]     \* history: the lines the run appended

\* the run goes on at r
At(self, r) == [self EXCEPT !.pc = r.pc, !.idx = r.idx, !.todo = r.todo, !.cur = NoCur]

\* if self.script_path: self._create_script(); ... write(line)
ThenWrite(self, line, r) ==
    IF script_path
    THEN [self EXCEPT !.pc = "exists", !.line = line, !.resume = r, !.cur = NoCur]
    ELSE At(self, r)

ProcGroupLoopNext(self, t) ==
    IF self.pc = "groups" THEN GroupsLoop(t) ELSE UserGroupsLoop(self.idx, t)

ConcUnchanged ==
    UNCHANGED <<catalog, run, pc, _next_uid, _next_gid, created_group_names, idx, todo,
                cur, calls, handed_gids, handed_uids, ret, flushes, injected, answer,
                first_end, logged, wrapper, selections, client, onefs_zone, flushed,
                tree, fixture>>

\* Creator.create_identities, up to the check of _create_script
run_create_identities(p) ==
    /\ procs[p].pc = "idle"
    /\ \E self \in {At(procs[p], GroupsLoop(identities.groups))} :
          procs' = [procs EXCEPT ![p] =
                      IF script_path
                      THEN [self EXCEPT !.pc = "create", !.resume = GroupsLoop(identities.groups),
                                        !.saw = script.exists, !.absent = ~script.exists]
                      ELSE self]
    /\ UNCHANGED <<remote, script, events>>
    /\ ConcUnchanged

\* Creator._create_script: if not os.path.exists(self.script_path)
os_path_exists(p) ==
    /\ procs[p].pc = "exists"
    /\ procs' = [procs EXCEPT ![p].pc = "create", ![p].saw = script.exists]
    /\ UNCHANGED <<remote, script, events>>
    /\ ConcUnchanged

\* Creator._create_script: with open(self.script_path, 'w'), after the check
open_w(p) ==
    /\ procs[p].pc = "create"
    /\ \E self \in {procs[p]} :
       \E f \in {_create_script([exists |-> self.saw, lines |-> script.lines])} :
          /\ script' = f
          /\ events' = IF f.lines = script.lines THEN events
                       ELSE [i \in DOMAIN f.lines |-> 0]
          /\ procs' = [procs EXCEPT ![p] =
                  IF self.line = NoLine
                  THEN [At(self, self.resume) EXCEPT
                           !.overwrote = self.overwrote
                                            \/ (script.exists /\ f.lines # script.lines)]
                  ELSE [self EXCEPT
                           !.pc = "append",
                           !.overwrote = self.overwrote
                                            \/ (script.exists /\ f.lines # script.lines)]]
    /\ UNCHANGED remote
    /\ ConcUnchanged

\* with open(self.script_path, 'a') as script_file: script_file.write(line)
append(p) ==
    /\ procs[p].pc = "append"
    /\ \E self \in {procs[p]} :
          /\ script' = write(script, self.line)
          /\ events' = Append(events, p)
          /\ procs' = [procs EXCEPT ![p] =
                  [At(self, self.resume) EXCEPT
                      !.line = NoLine, !.appended = Append(self.appended, self.line)]]
    /\ UNCHANGED remote
    /\ ConcUnchanged

\* iterate_identities: if group_name not in created_group_names (else branch)
proc_skip_group(p) ==
    /\ procs[p].pc \in {"groups", "user_groups"} /\ procs[p].cur = NoCur
    /\ \E self \in {procs[p]} :
       \E group_name \in self.todo \cap self.created_group_names :
          procs' = [procs EXCEPT ![p] =
                      At(self, ProcGroupLoopNext(self, self.todo \ {group_name}))]
    /\ UNCHANGED <<remote, script, events>>
    /\ ConcUnchanged

\* Creator.create_group returns gid (and iterate_identities adds the name)
proc_group_returns(self, group_name, gid) ==
    ThenWrite([self EXCEPT !.created_group_names = @ \cup {group_name}],
              Line("groupadd", gid, 0, group_name, ""),
              ProcGroupLoopNext(self, self.todo \ {group_name}))

\* Creator.create_group: one pass of the while loop
proc_create_group(p) ==
    /\ procs[p].pc \in {"groups", "user_groups"}
    /\ \E was \in {procs[p]} :
       \E group_name \in (IF was.cur = NoCur THEN was.todo \ was.created_group_names
                                             ELSE {was.cur.name}) :
       \E gid \in {was._next_gid} :
       \E exc \in create_auth_group(group_name, gid) :
       \E self \in {[was EXCEPT !._next_gid = advance(gid)]} :
          IF exc = Ok
             THEN /\ auth_groups' = auth_groups @@ (group_name :> gid)
                  /\ procs' = [procs EXCEPT ![p] = proc_group_returns(self, group_name, gid)]
          ELSE IF gid_already_exists_error(exc, gid)
             THEN /\ procs' = [procs EXCEPT ![p] =
                                 [self EXCEPT !.cur = [name |-> group_name, entry |-> 0]]]
                  /\ UNCHANGED auth_groups
          ELSE IF group_already_exists_error(exc, group_name)
             THEN /\ procs' = [procs EXCEPT ![p] =
                         proc_group_returns(self, group_name, existing_gid(group_name, gid))]
                  /\ UNCHANGED auth_groups
          ELSE /\ procs' = [procs EXCEPT ![p] = [self EXCEPT !.pc = "raised"]]
               /\ UNCHANGED auth_groups
    /\ UNCHANGED <<auth_users, group_members, hdfs_proxyusers, script, events>>
    /\ ConcUnchanged

\* Creator.create_user returns uid
proc_user_returns(self, user, uid, gid) ==
    ThenWrite(self, Line("useradd", uid, gid, user.name, ""), AfterCreateUser(self.idx))

\* Creator.create_user: one pass of the while loop
proc_create_user(p) ==
    /\ procs[p].pc = "create_user"
    /\ \E was \in {procs[p]} :
       \E user \in {identities.users[was.idx]} :
       \E uid \in {was._next_uid} :
       \E exc \in create_auth_user(user.name, uid, user.pgroup) :
       \E self \in {[was EXCEPT !._next_uid = advance(uid)]} :
          IF exc = Ok
             THEN /\ auth_users' = auth_users @@
                         (user.name :> [uid |-> uid, gid |-> user.pgroup])
                  /\ procs' = [procs EXCEPT ![p] =
                         proc_user_returns(self, user, uid, gid_of_group(user.pgroup))]
          ELSE IF uid_already_exists_error(exc, uid)
             THEN /\ procs' = [procs EXCEPT ![p] =
                                 [self EXCEPT !.cur = [name |-> user.name, entry |-> 0]]]
                  /\ UNCHANGED auth_users
          ELSE IF user_already_exists_error(exc, user.name)
             THEN /\ procs' = [procs EXCEPT ![p] =
                         proc_user_returns(self, user, existing_uid(user.name, uid),
                             gid_of_group(primary_group_of_user(user.name)))]
                  /\ UNCHANGED auth_users
          ELSE /\ procs' = [procs EXCEPT ![p] = [self EXCEPT !.pc = "raised"]]
               /\ UNCHANGED auth_users
    /\ UNCHANGED <<auth_groups, group_members, hdfs_proxyusers, script, events>>
    /\ ConcUnchanged

\* Creator.add_user_to_group
proc_add_user_to_group(p) ==
    /\ procs[p].pc = "add_user_to_group"
    /\ \E self \in {procs[p]} :
       \E user_name \in {identities.users[self.idx].name} :
       \E group_name \in self.todo :
       \E exc \in create_group_member(user_name, group_name) :
          IF exc = Ok \/ (/\ user_name \in DOMAIN auth_users
                          /\ user_already_in_group_error(
                                 exc, uid_of_user(user_name), group_name))
             THEN /\ group_members' = IF exc = Ok
                                      THEN group_members \cup {<<user_name, group_name>>}
                                      ELSE group_members
                  /\ procs' = [procs EXCEPT ![p] =
                         ThenWrite(self, Line("usermod", 0, 0, user_name, group_name),
                                   AddLoop(self.idx, self.todo \ {group_name}))]
          ELSE /\ procs' = [procs EXCEPT ![p] = [self EXCEPT !.pc = "raised"]]
               /\ UNCHANGED group_members
    /\ UNCHANGED <<auth_groups, auth_users, hdfs_proxyusers, script, events>>
    /\ ConcUnchanged

\* Creator.create_proxy_user
proc_create_proxy_user(p) ==
    /\ procs[p].pc = "proxy_users"
    /\ \E self \in {procs[p]} :
       \E proxy_user \in {identities.proxy_users[self.idx]} :
       \E exc \in create_hdfs_proxyuser(proxy_user.name) :
          IF exc = Ok
             THEN /\ hdfs_proxyusers' = hdfs_proxyusers @@
                         (proxy_user.name :> proxy_user.members)
                  /\ procs' = [procs EXCEPT ![p] = At(self, ProxyAt(self.idx + 1))]
          ELSE IF proxy_user_already_exists_error(exc, proxy_user.name)
             THEN /\ procs' = [procs EXCEPT ![p] = At(self, ProxyAt(self.idx + 1))]
                  /\ UNCHANGED hdfs_proxyusers
          ELSE /\ procs' = [procs EXCEPT ![p] = [self EXCEPT !.pc = "raised"]]
               /\ UNCHANGED hdfs_proxyusers
    /\ UNCHANGED <<auth_groups, auth_users, group_members, script, events>>
    /\ ConcUnchanged

\* Creator.create_identities: the flush, and the run returns
proc_flush_auth_cache(p) ==
    /\ procs[p].pc = "flush"
    /\ procs' = [procs EXCEPT ![p].pc = "done"]
    /\ UNCHANGED <<remote, script, events>>
    /\ ConcUnchanged

\* The catalogs of the concurrent runs.
ConcCatalogs ==
    {c \in ScenarioCatalogs : c.groups = {"hadoop"}}
        \cup {[groups |-> {"hadoop"}, users |-> <<>>, proxy_users |-> <<>>]}

\* Two Creators with the default start IDs, on a zone that may hold a foreign
\* group with the first GID.
ConcInit ==
    /\ identities \in ConcCatalogs
    /\ script_path \in BOOLEAN
    /\ order = Unordered
    /\ auth_groups \in {BaseGroups, BaseGroups @@ ForeignGroups({default_start_gid})}
    /\ auth_users = <<>>
    /\ group_members = {}
    /\ hdfs_proxyusers = <<>>
    /\ run = "concurrent"
    /\ Idle
    /\ NoTree
    /\ NoFixture
    /\ onefs = NoOneFS
    /\ default_zone = None
    /\ onefs_zone = "zone1"
    /\ procs = [p \in Procs |-> NewCreator]
    /\ events = <<>>

Step(p) ==
    \/ run_create_identities(p)
    \/ os_path_exists(p)
    \/ open_w(p)
    \/ append(p)
    \/ proc_skip_group(p)
    \/ proc_create_group(p)
    \/ proc_create_user(p)
    \/ proc_add_user_to_group(p)
    \/ proc_create_proxy_user(p)
    \/ proc_flush_auth_cache(p)

ConcNext == \E p \in Procs : Step(p)

ConcSpec == ConcInit /\ [][ConcNext]_vars

\* Each run is a process of its own: the scheduler lets each take its steps.
ConcFairSpec == ConcSpec /\ \A p \in Procs : WF_vars(Step(p))

----------------------------------------------------------------------------
\* Properties.

Users == Range(identities.users)
UserNamed(name) == CHOOSE u \in Users : u.name = name
Issued(op, a, b, k) == \E j \in 1..(k - 1) : calls[j] = Call(op, a, b)
GroupIssued(g, k) == \E j \in 1..(k - 1) : calls[j].op = "create_group" /\ calls[j].a = g
Last == calls[Len(calls)]
StrictlyIncreasingFrom(start, h) ==
    \A i \in 1..Len(h) : h[i] >= start /\ (i = 1 => h[i] = start)
                             /\ \A j \in 1..(i - 1) : h[j] < h[i]

\* C1: whenever create_user has been issued for a user, create_group was issued
\* earlier in the same run for the user's primary group and for each of its
\* secondary groups, listed in the catalog's groups or not.
C1_GroupsBeforeUser ==
    \A k \in 1..Len(calls) :
        calls[k].op = "create_user" =>
            LET u == UserNamed(calls[k].a) IN
            \A g \in {u.pgroup} \cup u.sgroups : GroupIssued(g, k)

\* C1 witness: create_user was issued for a user with a secondary group, none of
\* whose groups the catalog lists.
C1_Witness ==
    \E k \in 1..Len(calls) :
        /\ calls[k].op = "create_user"
        /\ LET u == UserNamed(calls[k].a) IN
           /\ u.sgroups \ {u.pgroup} # {}
           /\ ({u.pgroup} \cup u.sgroups) \cap identities.groups = {}

\* C4: the GIDs next_gid handed out in this run, and the UIDs next_uid handed
\* out, start at the start ID and are strictly increasing, so none is handed out
\* twice, whatever the creations that used them met.
C4_MonotonicIds ==
    /\ StrictlyIncreasingFrom(default_start_gid, handed_gids)
    /\ StrictlyIncreasingFrom(default_start_uid, handed_uids)
    /\ \A i \in 1..Len(handed_gids) : handed_gids[i] < _next_gid
    /\ \A i \in 1..Len(handed_uids) : handed_uids[i] < _next_uid

\* C4 witness: a GID was handed out after one attempt met a GID-taken conflict
\* and another a name-already-exists conflict.
C4_Witness ==
    /\ Len(handed_gids) >= 3
    /\ answer.kind = "gid_already_exists"
    /\ ret.op = "create_group" /\ ret.how = "exists"

\* C5: a run that returned has flushed the auth cache exactly once, as its last
\* call, after every other call; a run that has not returned has not flushed.
C5_FlushOnceAtEnd ==
    /\ pc = "done" =>
          /\ flushes = 1
          /\ Len(calls) >= 1 /\ Last.op = "flush_auth_cache"
          /\ \A k \in 1..(Len(calls) - 1) : calls[k].op # "flush_auth_cache"
    /\ pc # "done" => flushes = 0

\* C5 witness: a run over a catalog without identities returned.
C5_Witness ==
    /\ pc = "done"
    /\ identities.groups = {} /\ identities.users = <<>> /\ identities.proxy_users = <<>>

CatalogGroups == identities.groups \cup UNION {{u.pgroup} \cup u.sgroups : u \in Users}
CatalogUsers == {u.name : u \in Users}
CatalogProxyUsers == {p.name : p \in Range(identities.proxy_users)}
CatalogNames == [groups |-> CatalogGroups, users |-> CatalogUsers,
                 proxy_users |-> CatalogProxyUsers]
Union(a, b) == [groups |-> a.groups \cup b.groups, users |-> a.users \cup b.users,
                proxy_users |-> a.proxy_users \cup b.proxy_users]
CatalogPresent ==
    /\ CatalogGroups \subseteq DOMAIN auth_groups
    /\ CatalogUsers \subseteq DOMAIN auth_users
    /\ \A u \in Users : \A g \in u.sgroups : <<u.name, g>> \in group_members
    /\ CatalogProxyUsers \subseteq DOMAIN hdfs_proxyusers

\* C2: the second of two runs in succession, the first of which returned, does
\* not raise, and when it has returned the zone holds the group names, user
\* names and proxy-user names it held after the first run.
C2_SecondRunIdempotent ==
    (run = "second" /\ first_end.pc = "done") =>
        /\ pc # "raised"
        /\ pc = "done" => Names = first_end.names

\* C2 witness: the second run returned after a first run that returned, over a
\* catalog with a listed group, a user with a secondary group and a proxy user.
C2_Witness ==
    /\ run = "second" /\ first_end.pc = "done" /\ pc = "done"
    /\ identities.groups # {} /\ identities.proxy_users # <<>>
    /\ \E u \in Users : u.sgroups # {}

\* C3: a complete run after a run that was cut short after any prefix of its
\* remote calls does not raise, and when it has returned every catalog group,
\* user, secondary membership and proxy user is present and the zone holds the
\* names an uninterrupted run leaves: those it held at first and the catalog's.
C3_RerunAfterAbort ==
    (run = "second" /\ first_end.pc = "raised") =>
        /\ pc # "raised"
        /\ pc = "done" =>
              /\ CatalogPresent
              /\ Names = Union(first_end.zone, CatalogNames)

\* C3 witness: the first run was cut short between the creation of a user and
\* the first of its secondary-group additions, and the second run returned.
C3_Witness ==
    /\ run = "second" /\ first_end.pc = "raised" /\ pc = "done"
    /\ LET c == first_end.calls IN
       /\ Len(c) >= 2
       /\ c[Len(c)].op = "add_user_to_group"
       /\ c[Len(c) - 1].op = "create_user"
       /\ c[Len(c) - 1].a \notin first_end.zone.users

\* C6 as stated: every create_group is issued before any create_user.
C6_GroupsPhaseBeforeUsersPhase ==
    \A j, k \in 1..Len(calls) :
        (j < k /\ calls[j].op = "create_user") => calls[k].op # "create_group"

\* C6 amended: every create_group for a group the catalog lists in groups is
\* issued before any create_user; a create_group issued after a create_user is
\* for a group that only users reference and that no user created so far
\* references.
C6_ListedGroupsBeforeUsers ==
    \A j, k \in 1..Len(calls) :
        (j < k /\ calls[j].op = "create_user" /\ calls[k].op = "create_group") =>
            /\ calls[k].a \notin identities.groups
            /\ LET u == UserNamed(calls[j].a) IN
               calls[k].a \notin {u.pgroup} \cup u.sgroups

\* C6 witness: a create_group was issued after a create_user.
C6_Witness ==
    \E j, k \in 1..Len(calls) :
        j < k /\ calls[j].op = "create_user" /\ calls[k].op = "create_group"

\* C7: when create_proxy_user is issued, create_user was issued for every user
\* of the catalog and add_user_to_group for each of its secondary groups, and
\* nothing but create_proxy_user and the flush is issued afterwards.
C7_ProxyUsersAfterUsers ==
    \A k \in 1..Len(calls) :
        calls[k].op = "create_proxy_user" =>
            /\ \A u \in Users :
                  /\ Issued("create_user", u.name, u.pgroup, k)
                  /\ \A g \in u.sgroups : Issued("add_user_to_group", u.name, g, k)
            /\ \A j \in (k + 1)..Len(calls) :
                  calls[j].op \in {"create_proxy_user", "flush_auth_cache"}
            /\ \A j \in 1..(k - 1) : calls[j].op # "flush_auth_cache"

\* C7 witness: a run over two users with secondary groups and a proxy user
\* returned.
C7_Witness ==
    /\ pc = "done" /\ identities.proxy_users # <<>>
    /\ Len(identities.users) = 2 /\ \A u \in Users : u.sgroups # {}

\* C8: add_user_to_group(u, g) is issued only when create_user(u) was the last
\* creation to return, and the calls that follow create_user(u) are the
\* additions of u to each of its secondary groups, before any other call.
C8_MembershipAfterUser ==
    /\ (Len(calls) >= 1 /\ Last.op = "add_user_to_group") =>
          /\ ret.op = "create_user" /\ ret.name = Last.a
          /\ Last.b \in UserNamed(Last.a).sgroups
    /\ \A k \in 1..Len(calls) :
          calls[k].op = "create_user" =>
             LET u == UserNamed(calls[k].a)
                 n == Cardinality(u.sgroups)
                 adds == {m \in (k + 1)..Len(calls) : m <= k + n}
             IN
             /\ \A m \in adds : /\ calls[m].op = "add_user_to_group"
                                 /\ calls[m].a = u.name
                                 /\ calls[m].b \in u.sgroups
             /\ \A m1, m2 \in adds : m1 # m2 => calls[m1].b # calls[m2].b

\* C8 witness: a second user was created after a first user with two secondary
\* groups.
C8_Witness ==
    \E k \in 1..Len(calls) :
        /\ calls[k].op = "create_user" /\ calls[k].a = AllUserNames[2]
        /\ Cardinality(identities.users[1].sgroups) = 2

\* C9: an answer that a group of that name already exists ends create_group:
\* no retry is pending, the run has not raised, the zone's groups are what they
\* were, and create_group returned the GID the zone holds for the name.
C9_GroupAlreadyExists ==
    answer.kind = "group_already_exists" =>
        /\ cur = NoCur /\ pc # "raised"
        /\ ret.op = "create_group" /\ ret.name = answer.name /\ ret.how = "exists"
        /\ ret.after = ret.before /\ auth_groups = ret.before
        /\ ret.id = auth_groups[answer.name]

\* C9 witness: create_group returned the GID of an existing group, which is not
\* the GID it had allocated.
C9_Witness ==
    /\ answer.kind = "group_already_exists"
    /\ ret.how = "exists" /\ ret.id # ret.alloc

SmallestFree(from, taken) == Min({g \in from..(from + Cardinality(taken)) : g \notin taken})

\* The retry loop of create_group is running for a group name the zone does not
\* hold, in a run the remote answers with nothing but conflicts.
RetryingFreeName ==
    /\ run = "second" /\ pc \in {"groups", "user_groups"} /\ cur # NoCur
    /\ cur.name \notin DOMAIN auth_groups

C10_Retry ==
    /\ answer.kind = "gid_already_exists" =>
          /\ pc \in {"groups", "user_groups"} /\ cur # NoCur
          /\ _next_gid = answer.id + 1
    /\ (pc \in {"groups", "user_groups"} /\ cur # NoCur) =>
          /\ cur.entry < _next_gid
          /\ \A g \in cur.entry..(_next_gid - 1) : g \in gids
    /\ (ret.op = "create_group" /\ ret.how = "created") =>
          /\ ret.id = SmallestFree(ret.entry, Range(ret.before))
          /\ ret.name \notin DOMAIN ret.before
          /\ ret.after = ret.before @@ (ret.name :> ret.id)

\* C10: an answer that the GID is taken leaves create_group retrying with the
\* next GID; while it retries, every GID from the counter's value on entry up to
\* the counter is taken; a group it created has the smallest GID at or above the
\* counter's value on entry that was free; and a retry loop for a free name
\* ends with the group created.
C10_RetryToSmallestFreeGid ==
    /\ []C10_Retry
    /\ \A g \in GroupNames :
          (RetryingFreeName /\ cur.name = g) ~>
              (~RetryingFreeName /\ ret.op = "create_group" /\ ret.name = g
                  /\ ret.how = "created")

\* C10 witness: in a run the remote answers with nothing but conflicts,
\* create_group created a group after two GID-taken answers.
C10_Witness ==
    /\ run = "second"
    /\ ret.op = "create_group" /\ ret.how = "created"
    /\ ret.id = ret.entry + 2

\* C11: create_user resolves conflicts as create_group does, with UIDs: an
\* answer that the UID is taken leaves create_user retrying with the next UID;
\* an answer that a user of that name exists ends create_user without raising
\* and with the zone's users as they were; and whenever create_user returned,
\* created or existing, it returned the UID the zone holds for the user name.
C11_CreateUserConflicts ==
    /\ answer.kind = "uid_already_exists" =>
          /\ pc = "create_user" /\ cur # NoCur
          /\ cur.name = identities.users[idx].name
          /\ _next_uid = answer.id + 1
          /\ \A u \in cur.entry..(_next_uid - 1) : u \in uids
    /\ answer.kind = "user_already_exists" =>
          /\ cur = NoCur /\ pc # "raised"
          /\ ret.op = "create_user" /\ ret.name = answer.name /\ ret.how = "exists"
          /\ ret.after = ret.before /\ auth_users = ret.before
    /\ ret.op = "create_user" =>
          /\ ret.name \in DOMAIN auth_users
          /\ ret.id = auth_users[ret.name].uid
          /\ ret.how = "created" =>
                /\ ret.name \notin DOMAIN ret.before
                /\ ret.id \notin {ret.before[n].uid : n \in DOMAIN ret.before}
                /\ ret.after = ret.before @@
                      (ret.name :> [uid |-> ret.id, gid |-> UserNamed(ret.name).pgroup])

\* C11 witness: after a UID-taken answer create_user retried, was answered that
\* the user exists, and returned the UID of the existing user, which is not the
\* UID it had allocated.
C11_Witness ==
    /\ ret.op = "create_user" /\ ret.how = "exists"
    /\ ret.alloc > ret.entry /\ ret.id # ret.alloc

\* C12: a step in which create_proxy_user is answered that the proxy user
\* already exists does not raise: the run goes on to the next proxy user or to
\* the flush, the step issues that one remote call and no other, and the zone,
\* the existing proxy user's members included, is what it was.
C12_ProxyUserAlreadyExists ==
    [][(/\ pc = "proxy_users"
        /\ answer'.kind = "proxy_user_already_exists") =>
           /\ pc' \in {"proxy_users", "flush"}
           /\ idx' = idx + 1 \/ pc' = "flush"
           /\ calls' = Append(calls, Call("create_proxy_user", answer'.name, ""))
           /\ answer'.name = identities.proxy_users[idx].name
           /\ UNCHANGED remote]_vars

\* C12 witness: create_proxy_user returned for a proxy user that exists with
\* members other than the catalog's.
C12_Witness ==
    /\ answer.kind = "proxy_user_already_exists"
    /\ pc = "flush" /\ Last.op = "create_proxy_user"
    /\ hdfs_proxyusers[answer.name] # identities.proxy_users[1].members

\* C13: a step in which add_user_to_group is answered that the user is already
\* in the group does not raise: the zone is what it was, the script (when
\* configured) gets its usermod line and the run goes on to the next action;
\* a step in which the add fails in any other way raises, with the zone and
\* the script as they were.
C13_UserAlreadyInGroup ==
    [][(pc = "add_user_to_group" /\ calls' # calls) =>
          /\ calls' = Append(calls, Call("add_user_to_group",
                                          identities.users[idx].name, answer'.name))
                \/ answer'.kind # "user_already_in_group"
          /\ answer'.kind = "user_already_in_group" =>
                /\ pc' \in {"add_user_to_group", "user_groups", "proxy_users", "flush"}
                /\ UNCHANGED remote
                /\ script' = script_line(Line("usermod", 0, 0, identities.users[idx].name,
                                               answer'.name))
          /\ answer'.kind = "ok" => pc' # "raised"
          /\ answer'.kind \notin {"ok", "user_already_in_group"} =>
                /\ pc' = "raised"
                /\ UNCHANGED <<remote, script>>]_vars

\* C13 witness: the run went on after an add that was answered that the user is
\* already in the group.
C13_Witness ==
    /\ answer.kind = "user_already_in_group"
    /\ Last.op = "add_user_to_group" /\ Last.b = answer.name
    /\ pc \in {"proxy_users", "flush"}

\* The answers that are failures and none of the conflicts Creator recovers from.
UnrecognisedKinds == {"other", "group_unresolvable", "user_unresolvable", "group_not_found"}

\* What the zone holds stays in place over the step.
Kept ==
    /\ \A g \in DOMAIN auth_groups :
          g \in DOMAIN auth_groups' /\ auth_groups'[g] = auth_groups[g]
    /\ \A u \in DOMAIN auth_users :
          u \in DOMAIN auth_users' /\ auth_users'[u] = auth_users[u]
    /\ group_members \subseteq group_members'
    /\ \A p \in DOMAIN hdfs_proxyusers :
          p \in DOMAIN hdfs_proxyusers' /\ hdfs_proxyusers'[p] = hdfs_proxyusers[p]

\* C14: create_identities raises exactly when a remote call was answered with a
\* failure that is none of the recognised conflicts; the raising step leaves
\* the zone as it was and the run has not flushed; after it the run issues no
\* call (the only step is a new run, which finds the zone as the failure left
\* it); and no step of a run takes away what the zone holds, so the identities
\* created before the failure are in place.
C14_UnrecognisedFailureRaises ==
    [][/\ (answer.kind \in UnrecognisedKinds) <=> (pc = "raised")
       /\ pc = "raised" => flushes = 0 /\ cur = NoCur
       /\ (pc # "raised" /\ pc' = "raised") =>
             /\ answer'.kind \in UnrecognisedKinds
             /\ Len(calls') >= Len(calls)
             /\ UNCHANGED <<remote, script, flushes>>
       /\ pc = "raised" =>
             /\ run = "first" /\ run' = "second" /\ calls' = <<>>
             /\ UNCHANGED remote
       /\ Kept]_vars

\* C14 witness: a run raised at its third call or later, after it had created a
\* user.
C14_Witness ==
    /\ pc = "raised" /\ run = "first"
    /\ Len(calls) >= 3
    /\ DOMAIN auth_users \ first_end.zone.users # {}

\* The actions that write a line to the script, and those of this run that
\* completed: a call that raised, or whose retry loop is running, has not.
ScriptOps == {"create_group", "create_user", "add_user_to_group"}
IsScriptAction(c) == c.op \in ScriptOps
ScriptActions == SelectSeq(calls, IsScriptAction)
Completed ==
    IF (pc = "raised" \/ cur # NoCur) /\ Last.op \in ScriptOps
    THEN SubSeq(ScriptActions, 1, Len(ScriptActions) - 1)
    ELSE ScriptActions
\* The line of a completed action, with the IDs the zone holds.
LineOf(c) ==
    CASE c.op = "create_group" -> Line("groupadd", auth_groups[c.a], 0, c.a, "")
      [] c.op = "create_user" ->
            Line("useradd", auth_users[c.a].uid, auth_groups[auth_users[c.a].gid], c.a, "")
      [] OTHER -> Line("usermod", 0, 0, c.a, c.b)

\* C15: with a script path, at every point of a run the script is the preamble,
\* once, followed by nothing but action lines, the last of which are the lines
\* of the create_group, create_user and add_user_to_group actions this run
\* completed, in completion order (all of them when the run found no script);
\* a call that raised or is being retried has no line; and the line of the
\* create_group that returned last carries the GID it returned.
C15_ScriptLines ==
    /\ ~script_path => script = [exists |-> FALSE, lines |-> <<>>]
    /\ (script_path /\ pc # "idle") =>
          LET lines == script.lines
              n == Len(Completed)
              first == Len(lines) - n
          IN
          /\ script.exists
          /\ first >= Len(Preamble)
          /\ SubSeq(lines, 1, Len(Preamble)) = Preamble
          /\ \A i \in (Len(Preamble) + 1)..Len(lines) :
                lines[i].cmd \in {"groupadd", "useradd", "usermod"}
          /\ \A i \in 1..n : lines[first + i] = LineOf(Completed[i])
          /\ run = "first" => first = Len(Preamble)
          /\ (n > 0 /\ ret.op = "create_group" /\ Completed[n].op = "create_group") =>
                lines[Len(lines)] = Line("groupadd", ret.id, 0, ret.name, "")

\* C15 witness: a run with a script path raised on an add_user_to_group, after
\* it had written a groupadd line and a useradd line.
C15_Witness ==
    /\ script_path /\ run = "first" /\ pc = "raised"
    /\ Last.op = "add_user_to_group"
    /\ Len(script.lines) >= Len(Preamble) + 2
    /\ script.lines[Len(script.lines)].cmd = "useradd"

\* C16 as stated: the script exists no earlier than the first create/add action
\* of the run.
C16_ScriptCreatedLazily ==
    (run = "first" /\ script.exists) => ScriptActions # <<>>

\* C16 amended: with a script path, create_identities creates the script with
\* its preamble on entry, before its first action, so the script exists from
\* then on and holds the preamble alone until an action completes, also when
\* the catalog holds no identities; without a script path there is no script.
C16_ScriptCreatedOnEntry ==
    /\ pc = "idle" => ~script.exists
    /\ pc # "idle" => (script.exists <=> script_path)
    /\ (pc # "idle" /\ script_path /\ run = "first" /\ Completed = <<>>) =>
          script.lines = Preamble

\* C16 witness: a run with a script path over a catalog without identities
\* returned.
C16_Witness ==
    /\ pc = "done" /\ run = "first" /\ script_path
    /\ identities.groups = {} /\ identities.users = <<>> /\ identities.proxy_users = <<>>
    /\ script = [exists |-> TRUE, lines |-> Preamble]

NotFlush(c) == c.op # "flush_auth_cache"

\* C17: a dry run leaves the zone, the script, the counters and the flush count
\* as they are, and issues no call: there is no script file, no ID was handed
\* out and nothing was flushed; and a run of create_identities on the same
\* catalog afterwards issues its create/add calls in the order the dry run
\* logged them: what it has issued is a prefix of the log, and the whole log
\* once it returned.
C17_DryRun ==
    [][/\ run = "dry" =>
             /\ script = [exists |-> FALSE, lines |-> <<>>]
             /\ calls = <<>> /\ flushes = 0
             /\ handed_gids = <<>> /\ handed_uids = <<>>
             /\ _next_uid = default_start_uid /\ _next_gid = default_start_gid
       /\ run' = "dry" =>
             UNCHANGED <<remote, script, _next_uid, _next_gid, flushes, calls>>
       /\ (run = "first" /\ pc # "idle") =>
             LET visited == SelectSeq(calls, NotFlush) IN
             /\ Len(visited) <= Len(logged)
             /\ visited = SubSeq(logged, 1, Len(visited))
             /\ pc = "done" => Len(visited) = Len(logged)]_vars

\* C17 witness: after a dry run, create_identities returned for a catalog with
\* a listed group, a proxy user and a user with two secondary groups, in a
\* process that iterates the user's groups in one order and its secondary
\* groups in the other.
C17_Witness ==
    /\ run = "first" /\ pc = "done" /\ logged # <<>>
    /\ identities.groups # {} /\ identities.proxy_users # <<>>
    /\ Len(identities.users) >= 1 /\ Cardinality(identities.users[1].sgroups) = 2
    /\ order[<<"user_groups", 1>>] # order[<<"add_user_to_group", 1>>]

\* func failed with the temporarily-unavailable API error: an ApiException whose
\* body decodes to a list of messages, one of which is the template.
IsTryAgainFailure(out) ==
    /\ out.kind = "ApiException"
    /\ out.body.kind = "{}" /\ out.body.errors = "list"
    /\ \A i \in 1..Len(out.body.items) : out.body.items[i].kind = "message"
    /\ \E i \in 1..Len(out.body.items) :
          out.body.items[i].message = try_again_error_format
\* func failed with an ApiException whose body decodes to a list of messages.
IsDecodable(out) ==
    /\ out.body.kind = "{}" /\ out.body.errors = "list"
    /\ \A i \in 1..Len(out.body.items) : out.body.items[i].kind = "message"
LastOutcome == outcomes[Len(outcomes)]

\* C18: func has been invoked once per outcome; every invocation but the last
\* failed with the temporarily-unavailable error and was followed by one sleep
\* before the next; the wrapper exits at the first invocation that does
\* anything else, with the value it returned or by raising for its failure,
\* so after k such failures it has invoked func k + 1 times and slept k times,
\* for every k the bound allows.
C18_RetryWhileTryAgain ==
    LET n == Len(outcomes) IN
    /\ invoked = n
    /\ \A i \in 1..(n - 1) : IsTryAgainFailure(outcomes[i])
    /\ wpc = "call" => slept = n /\ exited = NoExit
                         /\ \A i \in 1..n : IsTryAgainFailure(outcomes[i])
    /\ wpc = "sleep" => n >= 1 /\ slept = n - 1 /\ exited = NoExit
                          /\ IsTryAgainFailure(LastOutcome)
    /\ wpc \in {"returned", "raised"} =>
          /\ n >= 1 /\ slept = n - 1
          /\ ~IsTryAgainFailure(LastOutcome)
          /\ LastOutcome.kind = "return" =>
                /\ wpc = "returned"
                /\ exited = Returns(LastOutcome.value)
          /\ LastOutcome.kind # "return" =>
                /\ wpc = "raised" /\ exited.how = "raise"
                /\ exited.cause = LastOutcome.kind \/ exited.exc = LastOutcome.kind
                      \/ exited.type = LastOutcome.kind

\* C18 witness: the wrapper returned the value of the third invocation, after
\* two temporarily-unavailable failures and two sleeps.
C18_Witness ==
    /\ wpc = "returned" /\ invoked = 3 /\ slept = 2
    /\ exited.value = "value"

\* C19: a MaxRetryError of func ends the call at that invocation: it is the
\* last outcome, the wrapper has raised, with OneFSCertificateError when the
\* reason is an SSLError and with OneFSConnectionError when it is not, and the
\* MaxRetryError is the cause; as the first outcome it leaves func invoked once.
C19_MaxRetryError ==
    \A i \in 1..Len(outcomes) :
        outcomes[i].kind = "MaxRetryError" =>
            /\ i = Len(outcomes) /\ invoked = i
            /\ wpc = "raised" /\ exited.how = "raise"
            /\ exited.type = (IF outcomes[i].reason = "SSLError"
                               THEN "OneFSCertificateError"
                               ELSE "OneFSConnectionError")
            /\ exited.cause = "MaxRetryError"

\* C19 witness: the first invocation failed with a MaxRetryError whose reason is
\* an SSLError, and the wrapper raised.
C19_Witness ==
    /\ wpc = "raised" /\ invoked = 1
    /\ LastOutcome.kind = "MaxRetryError" /\ LastOutcome.reason = "SSLError"

\* C20 as stated: an ApiException of func that is not the temporarily-
\* unavailable error ends the call at that invocation with an APIError, a
\* MalformedAPIError or an UndecodableAPIError whose cause is the ApiException.
C20_ClassifiedWithOriginalAsCause ==
    \A i \in 1..Len(outcomes) :
        (outcomes[i].kind = "ApiException" /\ ~IsTryAgainFailure(outcomes[i])) =>
            /\ i = Len(outcomes) /\ invoked = i
            /\ wpc = "raised" /\ exited.how = "raise"
            /\ exited.type \in {"APIError", "MalformedAPIError", "UndecodableAPIError"}
            /\ exited.cause = "ApiException"

\* C20 amended: an ApiException of func that is not the temporarily-unavailable
\* error ends the call at that invocation.  The wrapper raises
\* OneFSCertificateError, caused by the ApiException, when the body is empty
\* and the reason names CERTIFICATE_VERIFY_FAILED; otherwise APIError, caused by
\* the ApiException, when the body decodes to a list of messages; otherwise
\* UndecodableAPIError (the body is not JSON) or MalformedAPIError (it is, but
\* holds no list of messages), which wraps the ApiException and is caused by
\* the decoding error.
C20_ClassifiedApiException ==
    \A i \in 1..Len(outcomes) :
        (outcomes[i].kind = "ApiException" /\ ~IsTryAgainFailure(outcomes[i])) =>
            /\ i = Len(outcomes) /\ invoked = i
            /\ wpc = "raised" /\ exited.how = "raise"
            /\ LET out == outcomes[i] IN
               IF out.body.kind \in {None, "empty"} /\ out.reason = certificate_verify_failed
                   THEN exited.type = "OneFSCertificateError"
                        /\ exited.cause = "ApiException"
               ELSE IF IsDecodable(out)
                   THEN exited = raise_from("APIError", "ApiException", "ApiException")
               ELSE /\ exited.type = (IF out.body.kind \in {None, "empty", "not JSON"}
                                       THEN "UndecodableAPIError"
                                       ELSE "MalformedAPIError")
                    /\ exited.exc = "ApiException"
                    /\ exited.cause \in {"TypeError", "ValueError", "KeyError"}

\* C20 witness: the first invocation failed with an ApiException whose body
\* lists a message and an entry without one, and the wrapper raised
\* MalformedAPIError.
C20_Witness ==
    /\ wpc = "raised" /\ invoked = 1
    /\ LastOutcome.kind = "ApiException"
    /\ LastOutcome.body.errors = "list" /\ Len(LastOutcome.body.items) = 2
    /\ LastOutcome.body.items[1].kind = "message"
    /\ exited.type = "MalformedAPIError"

\* The classified errors of the wrapper: Connection, Certificate, Malformed,
\* Undecodable and Domain API error.
ClassifiedErrors ==
    {"OneFSConnectionError", "OneFSCertificateError", "MalformedAPIError",
     "UndecodableAPIError", "APIError"}
\* func failed, and not with the temporarily-unavailable error.
IsFinalFailure(out) == out.kind # "return" /\ ~IsTryAgainFailure(out)

\* C21 as stated: every exit of the wrapper is the value func returned or a
\* raised classified error (Connection, Certificate, Malformed, Undecodable or
\* Domain API error), and a failure of func that is not retried is raised.
C21_ExitIsResultOrClassified ==
    /\ wpc = "returned" =>
          LastOutcome.kind = "return" /\ exited = Returns(LastOutcome.value)
    /\ wpc = "raised" =>
          /\ LastOutcome.kind # "return"
          /\ exited.how = "raise" /\ exited.type \in ClassifiedErrors
    /\ \A i \in 1..Len(outcomes) :
          IsFinalFailure(outcomes[i]) => i = Len(outcomes) /\ wpc = "raised"

\* C21 amended: every exit of the wrapper is the value func returned, a raised
\* classified error when func failed with a MaxRetryError or an ApiException,
\* or the exception of func itself, unchanged, when it failed with anything
\* else; a failure of func that is not retried is raised.
C21_ExitIsResultClassifiedOrOriginal ==
    /\ wpc = "returned" =>
          LastOutcome.kind = "return" /\ exited = Returns(LastOutcome.value)
    /\ wpc = "raised" =>
          /\ LastOutcome.kind # "return"
          /\ exited.how = "raise"
          /\ IF LastOutcome.kind \in {"MaxRetryError", "ApiException"}
                THEN exited.type \in ClassifiedErrors
                ELSE exited = raise_from(LastOutcome.kind, None, None)
    /\ \A i \in 1..Len(outcomes) :
          IsFinalFailure(outcomes[i]) => i = Len(outcomes) /\ wpc = "raised"

\* C21 witness: after one temporarily-unavailable failure and one sleep, the
\* second invocation failed with an ApiException and the wrapper raised a
\* classified error.
C21_Witness ==
    /\ wpc = "raised" /\ invoked = 2 /\ slept = 1
    /\ LastOutcome.kind = "ApiException"
    /\ exited.type \in ClassifiedErrors

\* C22: an exception of func that is neither a MaxRetryError nor an
\* ApiException ends the call at the invocation that raised it: it is the last
\* outcome, func is not invoked again, and the wrapper has raised that very
\* exception, not wrapped and with no cause added; as the first outcome it
\* leaves func invoked exactly once.
C22_OtherExceptionPropagates ==
    \A i \in 1..Len(outcomes) :
        outcomes[i].kind \notin {"return", "MaxRetryError", "ApiException"} =>
            /\ i = Len(outcomes) /\ invoked = i /\ slept = i - 1
            /\ wpc = "raised"
            /\ exited = raise_from(outcomes[i].kind, None, None)

\* C22 witness: the first invocation raised an exception of another kind, and
\* the wrapper raised after that one invocation.
C22_Witness ==
    /\ wpc = "raised" /\ invoked = 1 /\ slept = 0
    /\ LastOutcome.kind = "Exception"

\* The body is JSON: an object or another value.
IsJson(body) == body.kind \in {"[]", "{}"}
\* The body is a JSON object whose 'errors' is a list of entries, each with a
\* 'message'.
IsErrorList(body) ==
    /\ body.kind = "{}" /\ body.errors = "list"
    /\ \A i \in 1..Len(body.items) : body.items[i].kind = "message"

\* C23: for the body of every ApiException func raised, errors has exactly one
\* of three outcomes, decided by the body alone: UndecodableAPIError when the
\* body is absent or not JSON, MalformedAPIError when it is JSON without a list
\* 'errors' whose entries each hold a 'message', and otherwise the list itself
\* (the empty list too); and what the wrapper raised for a body errors
\* rejects is that error.
C23_ErrorsClassifiesBody ==
    \A i \in 1..Len(outcomes) :
        outcomes[i].kind = "ApiException" =>
            LET body == outcomes[i].body
                e == errors(body)
            IN  /\ e.how \in {"raise", "return"}
                /\ e.how = "raise" =>
                      e.type \in {"UndecodableAPIError", "MalformedAPIError"}
                /\ (e.how = "raise" /\ e.type = "UndecodableAPIError") <=> ~IsJson(body)
                /\ (e.how = "raise" /\ e.type = "MalformedAPIError")
                      <=> (IsJson(body) /\ ~IsErrorList(body))
                /\ e.how = "return" <=> IsErrorList(body)
                /\ e.how = "return" => e.value = body.items
                /\ \A j \in 1..Len(outcomes) :
                      outcomes[j].kind = "ApiException" /\ outcomes[j].body = body
                          => errors(outcomes[j].body) = e
                /\ (e.how = "raise" /\ ~certificate_error(outcomes[i])) =>
                      wpc = "raised" /\ exited = e

\* C23 witness: func raised an ApiException whose body is '{"errors": []}', and
\* the wrapper raised APIError, the empty list being returned by errors.
C23_Witness ==
    /\ wpc = "raised" /\ LastOutcome.kind = "ApiException"
    /\ LastOutcome.body.errors = "list" /\ LastOutcome.body.items = <<>>
    /\ exited.type = "APIError"

\* The ApiException has no body and a reason that is not empty.
IsBodylessWithReason(out) ==
    /\ out.kind = "ApiException"
    /\ out.body.kind \in {None, "empty"}
    /\ out.reason # None

\* C24 as stated: an ApiException with no body and a non-empty reason makes the
\* wrapper raise UndecodableAPIError, whatever the reason is.
C24_BodylessIsUndecodable ==
    \A i \in 1..Len(outcomes) :
        IsBodylessWithReason(outcomes[i]) =>
            /\ i = Len(outcomes) /\ wpc = "raised"
            /\ exited.type = "UndecodableAPIError"

\* C24 amended: an ApiException with no body and a non-empty reason makes the
\* wrapper raise UndecodableAPIError, and never OneFSConnectionError, unless
\* the reason contains CERTIFICATE_VERIFY_FAILED, when it raises
\* OneFSCertificateError.
C24_BodylessIsUndecodableOrCertificate ==
    \A i \in 1..Len(outcomes) :
        IsBodylessWithReason(outcomes[i]) =>
            /\ i = Len(outcomes) /\ wpc = "raised"
            /\ exited.type # "OneFSConnectionError"
            /\ exited.type = (IF outcomes[i].reason = certificate_verify_failed
                               THEN "OneFSCertificateError"
                               ELSE "UndecodableAPIError")

\* C24 witness: the first invocation raised an ApiException with no body and
\* the reason 'Bad Request', and the wrapper raised UndecodableAPIError.
C24_Witness ==
    /\ wpc = "raised" /\ invoked = 1
    /\ LastOutcome.kind = "ApiException" /\ LastOutcome.body.kind = None
    /\ LastOutcome.reason = "Bad Request"
    /\ exited.type = "UndecodableAPIError"

\* The bindings, and the release each begins with.
Bindings ==
    {"isi_sdk_7_2", "isi_sdk_8_0", "isi_sdk_8_0_1", "isi_sdk_8_1_0", "isi_sdk_8_1_1",
     "isi_sdk_8_2_0", "isi_sdk_8_2_1", "isi_sdk_8_2_2"}
Floor(binding) ==
    ONEFS_RELEASES[CASE binding = "isi_sdk_7_2" -> "7.2.0.0"
                     [] binding = "isi_sdk_8_0" -> "8.0.0.0"
                     [] binding = "isi_sdk_8_0_1" -> "8.0.1.0"
                     [] binding = "isi_sdk_8_1_0" -> "8.1.0.0"
                     [] binding = "isi_sdk_8_1_1" -> "8.1.1.0"
                     [] binding = "isi_sdk_8_2_0" -> "8.2.0.0"
                     [] binding = "isi_sdk_8_2_1" -> "8.2.1.0"
                     [] binding = "isi_sdk_8_2_2" -> "8.2.2.0"]
\* The ceiling of a binding: the next binding's floor, 8.2.3.0 for the newest.
Ceiling(binding) ==
    Min({Floor(b) : b \in {c \in Bindings : Floor(c) > Floor(binding)}}
            \cup {ONEFS_RELEASES["8.2.3.0"]})
\* The revision is one of a supported release.
Supported(r) == ONEFS_RELEASES["7.2.0.0"] <= r /\ r < ONEFS_RELEASES["8.2.3.0"]

\* C25: every call of sdk_for_revision for a revision from 7.2.0.0 up to, not
\* including, 8.2.3.0 returned, strict or not, the binding with the greatest
\* floor not above the revision; that binding is the only one whose range, from
\* its floor up to the next floor, holds the revision; and of two such calls
\* the one for the greater revision did not get the binding with the lesser
\* floor.
C25_GreatestFloorSelected ==
    \A i \in 1..Len(selections) :
        LET s == selections[i] IN
        Supported(s.revision) =>
            /\ s.how = "return" /\ s.sdk \in Bindings
            /\ Floor(s.sdk) <= s.revision
            /\ \A b \in Bindings : Floor(b) <= s.revision => Floor(b) <= Floor(s.sdk)
            /\ {b \in Bindings : Floor(b) <= s.revision /\ s.revision < Ceiling(b)}
                  = {s.sdk}
            /\ \A j \in 1..Len(selections) :
                  LET t == selections[j] IN
                  (Supported(t.revision) /\ s.revision <= t.revision) =>
                      /\ t.how = "return"
                      /\ Floor(s.sdk) <= Floor(t.sdk)
                      /\ s.revision = t.revision => s.sdk = t.sdk

\* C25 witness: the binding of 8.0.0.4 was asked for without strict and the
\* binding of 8.1.3.0 with it, and isi_sdk_8_0 and isi_sdk_8_1_1 were returned.
C25_Witness ==
    /\ Len(selections) = 2
    /\ selections[1].revision = ONEFS_RELEASES["8.0.0.4"] /\ ~selections[1].strict
    /\ selections[1].sdk = "isi_sdk_8_0"
    /\ selections[2].revision = ONEFS_RELEASES["8.1.3.0"] /\ selections[2].strict
    /\ selections[2].sdk = "isi_sdk_8_1_1"

\* C26: every call of sdk_for_revision for a revision below 7.2.0.0 or not
\* below 8.2.3.0 raised UnsupportedVersion when strict and returned isi_sdk_8_2_2
\* when not, also when the revision is older than every release.
C26_UnsupportedRevision ==
    \A i \in 1..Len(selections) :
        LET s == selections[i] IN
        ~Supported(s.revision) =>
            IF s.strict THEN s.how = "raise" /\ s.type = "UnsupportedVersion"
            ELSE s.how = "return" /\ s.sdk = "isi_sdk_8_2_2"

\* C26 witness: the binding of revision 0 was asked for without strict and then
\* with it: isi_sdk_8_2_2 was returned, then UnsupportedVersion raised.
C26_Witness ==
    /\ Len(selections) = 2
    /\ selections[1].revision = 0 /\ ~selections[1].strict
    /\ selections[1].sdk = "isi_sdk_8_2_2"
    /\ selections[2].revision = 0 /\ selections[2].strict
    /\ selections[2].type = "UnsupportedVersion"

\* The nodes of the cluster at a host all report one revision, and that revision.
ReportsOne(h) ==
    /\ onefs.version[h].kind = "nodes"
    /\ Cardinality(Range(onefs.version[h].nodes)) = 1
Reported(h) == CHOOSE r \in Range(onefs.version[h].nodes) : TRUE
\* The binding for a revision: the one whose range holds it, the newest when
\* none does.
Selected(r) ==
    IF Supported(r)
        THEN CHOOSE b \in Bindings : Floor(b) <= r /\ r < Ceiling(b)
        ELSE "isi_sdk_8_2_2"
\* The assignments that changed host: those to host, and those to address
\* whose address was resolved.
HostChanges ==
    {i \in 1..Len(assigned) :
        assigned[i].attribute = "host" \/ gethostbyname(assigned[i].value) # gaierror}

\* C27: a constructed client, between assignments to address and host, has
\* one of the bindings as its active binding; when the nodes at its host report
\* one revision, that revision is the one it detected and the binding is the
\* one for it; and the revision was detected once at construction and once
\* more for every assignment that changed host, the last time at the host the
\* client has now.
C27_BindingFollowsHost ==
    cpc = "ready" =>
        /\ _sdk \in Bindings
        /\ host \in Hosts
        /\ ReportsOne(host) =>
              /\ _revision = <<Reported(host)>>
              /\ _sdk = Selected(Reported(host))
        /\ Len(detections) = 1 + Cardinality(HostChanges)
        /\ detections[Len(detections)].host = host
        /\ detections[Len(detections)].after = _sdk

\* C27 witness: host was assigned to, then address, both assignments returned,
\* and the binding changed from isi_sdk_8_0 to isi_sdk_8_2_1 and back.
C27_Witness ==
    /\ cpc = "ready" /\ Len(assigned) = 2
    /\ assigned[1].attribute = "host" /\ assigned[1].how = "return"
    /\ assigned[2].attribute = "address" /\ assigned[2].how = "return"
    /\ detections[1].after = "isi_sdk_8_0"
    /\ detections[2].after = "isi_sdk_8_2_1"
    /\ _sdk = "isi_sdk_8_0" /\ _address = assigned[2].value

\* C28 as stated: whenever the revision of a cluster that answered was
\* detected, the detection failed with MixedModeError and left the binding as
\* it was if the nodes reported two or more revisions, and returned the
\* revision if they all reported the same.
C28_MixedModeError ==
    \A i \in 1..Len(detections) :
        LET d == detections[i] IN
        onefs.version[d.host].kind = "nodes" =>
            IF Cardinality(Range(onefs.version[d.host].nodes)) >= 2
                THEN d.how = "raise" /\ d.type = "MixedModeError" /\ d.after = d.before
                ELSE d.how = "return" /\ d.found = <<Reported(d.host)>>

\* The cluster holds one HDFS license, and it is active by its status.
ActiveStatuses == {"Activated", "Evaluation", "Licensed"}
OneLicense == Len(onefs.licenses) = 1
LicenseActive == OneLicense /\ onefs.licenses[1].status \in ActiveStatuses
\* The expiration dates before today's.
Passed == {"2019-12-31"}
\* What check_license is to do for the one license of the cluster.
LicenseOutcome(exit) ==
    IF LicenseActive THEN exit = Done
    ELSE IF onefs.licenses[1].expiration \in Passed
        THEN exit.how = "raise" /\ exit.type = "ExpiredLicenseError"
    ELSE exit.how = "raise" /\ exit.type = "MissingLicenseError"

\* C29: when the cluster holds one HDFS license, check_license, called on a
\* client or by for_hdfs, returned if the status of the license is an active
\* one, raised ExpiredLicenseError if it is not and the license has an
\* expiration date before today (a license with an expiration date is taken
\* for an evaluation), and raised MissingLicenseError for every other license.
C29_CheckLicense ==
    OneLicense =>
        /\ license_check.how # None => LicenseOutcome(license_check)
        /\ (via.cls = "for_hdfs" /\ Len(checks) = 3) => LicenseOutcome(constructed)

\* C29 witness: check_license was called on a client for a license that
\* expired yesterday, and raised ExpiredLicenseError.
C29_Witness ==
    /\ OneLicense /\ onefs.licenses[1].status = "Expired"
    /\ onefs.licenses[1].expiration = "2019-12-31"
    /\ license_check.type = "ExpiredLicenseError"

\* The cluster has a zone of that name, whatever the case of the letters.
ZoneExists(name) == \E i \in 1..Len(onefs.zones) : lower(onefs.zones[i]) = lower(name)

\* C30: for_hdfs runs its checks in the order binding, zone, license, each one
\* only after the ones before it passed.  When it has returned the client, all
\* three were run: the binding is the one for the revision of the host the
\* address resolved to, the default zone exists (whatever the case of its
\* letters) and the HDFS license is active.  When it has failed, it raised, the
\* last check run is the one that failed (with MissingZoneError for the zone),
\* none was run after it, and none at all if the address did not resolve.
C30_ForHdfsChecksInOrder ==
    via.cls = "for_hdfs" =>
        /\ \E n \in 0..3 : checks = SubSeq(<<"sdk", "zone", "license">>, 1, n)
        /\ cpc = "refresh" /\ Constructing => checks = <<>>
        /\ cpc = "zone" => checks = <<"sdk">>
        /\ cpc = "license" => checks = <<"sdk", "zone">>
        /\ Len(checks) >= 1 =>
              /\ gethostbyname(via.address) # gaierror
              /\ detections[1].host = gethostbyname(via.address)
        /\ (Len(checks) >= 2 \/ cpc = "zone") =>
              /\ ReportsOne(detections[1].host)
              /\ detections[1].after = Selected(Reported(detections[1].host))
        /\ (Len(checks) >= 3 \/ cpc = "license") => ZoneExists(via.default_zone)
        /\ cpc = "ready" =>
              /\ checks = <<"sdk", "zone", "license">>
              /\ constructed = Done
              /\ LicenseActive
        /\ cpc = "failed" =>
              /\ constructed.how = "raise"
              /\ Len(checks) = 0 => gethostbyname(via.address) = gaierror
              /\ Len(checks) = 1 => ~ReportsOne(detections[1].host)
              /\ Len(checks) = 2 =>
                    ~ZoneExists(via.default_zone) /\ constructed.type = "MissingZoneError"
              /\ Len(checks) = 3 => ~LicenseActive

\* C30 witness: for_hdfs returned a client whose default zone 'hdfs' is the
\* zone 'HDFS' of the cluster, with an evaluation license.
C30_Witness ==
    /\ via.cls = "for_hdfs" /\ cpc = "ready" /\ assigned = <<>>
    /\ via.default_zone = "hdfs"
    /\ onefs.licenses[1].status = "Evaluation"

\* The create_group calls of this run for the group g.
GroupCalls(g) == {k \in 1..Len(calls) : calls[k].op = "create_group" /\ calls[k].a = g}
\* The places of the catalog that name the group g.
References(g) ==
    Cardinality({u \in Users : g \in user_groups(u)})
        + (IF g \in identities.groups THEN 1 ELSE 0)

\* C39: within one run of iterate_identities, create_group is called at most
\* once for a group name, however many users name the group and whether or not
\* the catalog's groups list it.
C39_CreateGroupOncePerName ==
    \A g \in GroupNames : Cardinality(GroupCalls(g)) <= 1

\* C39 witness: a run returned that called create_group once for a group which
\* the catalog lists and which two users name.
C39_Witness ==
    /\ Creating /\ pc = "done"
    /\ \E g \in identities.groups :
          /\ References(g) >= 3
          /\ Cardinality(GroupCalls(g)) = 1

\* C40: the flush that ends create_identities is issued for the zone of the
\* Creator (onefs_zone), the zone the run's create_group, create_user,
\* add_user_to_group and create_proxy_user calls were issued for, also when it
\* is not the default zone of the client.
C40_FlushInCreatorZone ==
    \A i \in DOMAIN flushed : flushed[i] = onefs_zone

\* The directory of the namespace that the run acts on for the i-th directory
\* of the catalog.
Target(i) == Components(_zone_real_path(zone_relative(directories[i])))
\* create_directories goes on after this call.
Tolerated(c) == c.exc = Ok \/ (c.op = "mkdir" /\ c.exc.kind = "dir_path_already_exists")

\* C31: when the HDFS root without its trailing separators is /ifs,
\* create_directories raises HDFSRootDirectoryError and has issued no mkdir,
\* chmod or chown: the namespace is as it was, whatever the zone's path.
C31_IfsRootRaisesBeforeAnyCall ==
    rstrip(hdfs_settings.root_directory) = ifs =>
        /\ pc \in {"idle", "raised"}
        /\ pc = "raised" => error = raise_from("HDFSRootDirectoryError", None, None)
        /\ calls = <<>>
        /\ namespace = snapshots.start

\* C31 witness: the HDFS root of the zone at /ifs/z is '/ifs/', and
\* create_directories has raised.
C31_Witness ==
    /\ pc = "raised"
    /\ hdfs_settings.root_directory = ifs \o <<sep>>
    /\ zone_settings.path # ifs
    /\ error.type = "HDFSRootDirectoryError"

\* C32: the calls of a run are, directory after directory in catalog order,
\* mkdir with the declared mode, chmod with the declared mode, chown with the
\* declared owner and group, all three on the directory's path; after a mkdir
\* that reported that the directory exists the run is at the chmod of that
\* directory, and a run that returned has issued all three for every directory.
C32_MkdirChmodChownInCatalogOrder ==
    /\ \A k \in DOMAIN calls :
          /\ ((k - 1) \div 3) + 1 <= Len(directories)
          /\ LET i == ((k - 1) \div 3) + 1 IN
             /\ calls[k].dir = i
             /\ calls[k].path = zone_relative(directories[i])
             /\ calls[k].op = <<"mkdir", "chmod", "chown">>[((k - 1) % 3) + 1]
             /\ calls[k].op \in {"mkdir", "chmod"} => calls[k].mode = directories[i].mode
             /\ calls[k].op = "chown" =>
                   /\ calls[k].owner = directories[i].owner
                   /\ calls[k].group = directories[i].group
    /\ calls # <<>> /\ Last.op = "mkdir" /\ Last.exc.kind = "dir_path_already_exists" =>
          pc = "chmod" /\ idx = Last.dir
    /\ pc = "done" => Len(calls) = 3 * Len(directories)

\* C32 witness: a run returned whose mkdir of the first directory reported
\* that the directory exists.
C32_Witness ==
    /\ pc = "done" /\ run = "first"
    /\ calls[1].exc.kind = "dir_path_already_exists"
    /\ calls[4].exc = Ok

\* C33: no call follows a call that failed, other than a mkdir that reported
\* that the directory exists; when the last call failed so, create_directories
\* has raised that error and the namespace is as it was before the call.
C33_FailureAbortsTheRun ==
    /\ \A k \in 1..(Len(calls) - 1) : Tolerated(calls[k])
    /\ calls # <<>> /\ ~Tolerated(Last) =>
          /\ pc = "raised"
          /\ error = raise_from(Last.exc.kind, None, None)
          /\ namespace = snapshots.before

\* C33 witness: the chmod of the second directory failed after the first
\* directory was made and provisioned.
C33_Witness ==
    /\ pc = "raised" /\ Len(calls) = 5
    /\ Last.op = "chmod"
    /\ calls[1].exc = Ok
    /\ Target(1) \in DOMAIN namespace

\* C34: every mkdir, chmod and chown acts on the directory that the HDFS root
\* joined with the catalog path names.
C34_ActsUnderHdfsRoot ==
    \A k \in DOMAIN calls :
        Components(_zone_real_path(calls[k].path)) =
            Components(posixpath_join(hdfs_root, lstrip(directories[calls[k].dir].path)))

\* The i-th directory of the catalog exists with the declared mode, owner and
\* group.
Declared(i) ==
    /\ Target(i) \in DOMAIN namespace
    /\ namespace[Target(i)] =
          [mode |-> format_o(directories[i].mode),
           owner |-> uid_of_user(directories[i].owner),
           group |-> gid_of_group(directories[i].group)]

\* C35: when a run has returned, every directory of the catalog exists with
\* the declared mode, owner and group; a second run on that namespace does not
\* raise and leaves the namespace as the first run left it.
C35_ConvergesAndReruns ==
    /\ pc = "done" => \A i \in DOMAIN directories : Declared(i)
    /\ run = "second" => pc # "raised" /\ namespace = snapshots.first

\* C35 witness: the second run returned; before the first run one directory
\* of the catalog existed, with other attributes, and another did not.
C35_Witness ==
    /\ run = "second" /\ pc = "done"
    /\ \E i, j \in DOMAIN directories :
          /\ Target(i) \in DOMAIN snapshots.start
          /\ snapshots.start[Target(i)] # namespace[Target(i)]
          /\ Target(j) \notin DOMAIN snapshots.start

\* C36: when the fixture has returned for a distribution and a zone, every
\* owner of a directory of the distribution is a user that iterate_identities
\* created from the distribution's identities, and every group of a directory
\* is a group it created.
C36_DirectoryIdentitiesAreCreated ==
    param # None /\ pc = "done" =>
        \A i \in DOMAIN directories :
            /\ directories[i].owner \in users
            /\ directories[i].group \in groups

\* C36 witness: the fixture has returned for hdp in the System zone, with
\* the group that only secondary memberships name.
C36_Witness ==
    /\ param # None /\ pc = "done"
    /\ param = "hdp" /\ default_zone = "System"
    /\ Len(directories) = Len(hdp_directories)
    /\ "hadoop" \in groups /\ "admin" \notin users


\* The lines of the file that run p appended.
LinesOf(p) == {i \in DOMAIN events : events[i] = p}
\* A line that run p appended is not in the file.
Lost(p) == Cardinality(LinesOf(p)) < Len(procs[p].appended)

\* C37: two runs that share one script path can race.  A line that one run
\* appended is missing from the file only when the other run wrote the
\* preamble over the file, and then both runs had found no file at the check
\* of create_identities before either wrote; such an interleaving is reachable
\* (C37_Witness).
C37_LineLostToTheOtherRunsPreamble ==
    \A p \in Procs :
        Lost(p) => \E q \in Procs \ {p} :
                      /\ procs[q].overwrote
                      /\ procs[q].absent
                      /\ procs[p].absent

C37_Witness ==
    \E p \in Procs : \E q \in Procs \ {p} :
        /\ Lost(p)
        /\ procs[q].overwrote
        /\ script.lines = Preamble

AllDone == \A p \in Procs : procs[p].pc = "done"
NoRaise == \A p \in Procs : procs[p].pc # "raised"
DistinctIds ==
    /\ \A g, h \in DOMAIN auth_groups : auth_groups[g] = auth_groups[h] => g = h
    /\ \A u, v \in DOMAIN auth_users : auth_users[u].uid = auth_users[v].uid => u = v

\* C38: two concurrent runs of create_identities with the same catalog and the
\* same start IDs, on a zone that enforces unique names and IDs: no run raises,
\* both runs return under every interleaving, and once both have returned the
\* zone holds every group, user, membership and proxy user of the catalog, no
\* two groups with one GID and no two users with one UID.
C38_ConcurrentRunsConverge ==
    /\ [](NoRaise /\ DistinctIds /\ (AllDone => CatalogPresent))
    /\ <>[]AllDone

\* Both runs returned, and one of them met a GID the other had taken.
C38_Witness ==
    /\ AllDone
    /\ CatalogPresent
    /\ CatalogUsers # {}
    /\ \A p \in Procs : procs[p]._next_uid > default_start_uid
    /\ \E p \in Procs : procs[p]._next_gid > default_start_gid + Cardinality(CatalogGroups) + 1

====
